---------------------------- MODULE Spec2Model ----------------------------
(***************************************************************************)
(* A model of the Eva compiler and virtual machine (learn-vm):             *)
(*   src/src/vm/EvaValue.h        values, heap objects, the registry       *)
(*   src/src/vm/Global.h          the global table                         *)
(*   src/src/compiler/Scope.h     scope analysis                           *)
(*   src/src/compiler/EvaCompiler.h  the bytecode compiler                 *)
(*   src/src/vm/EvaVM.h           the interpreter                          *)
(*   src/src/gc/EvaCollector.h    the mark-sweep collector                 *)
(*                                                                         *)
(* Reading of the source.  The sources hold statements that no C++         *)
(* compiler accepts.  Each statement is modelled as it is written; where   *)
(* it is ill-formed it is read with the smallest change that makes it      *)
(* well-formed: a misspelt identifier is the nearest declared one          *)
(* (StringObhect, AS_FNCTION, scopeType, root, object; numbericConstIdx is *)
(* numericConstIdx for a number and stringConstIdx for a string, the one   *)
(* function that accepts the argument),                                    *)
(* a call with the wrong number of arguments is the call of the function   *)
(* that is named (pop(0) is pop(), new CodeObject(name) passes arity), a   *)
(* second case label OP_GET_GLOBAL in front of the OP_GET_LOCAL handler is *)
(* OP_GET_LOCAL, the second definition of IS_NUMBER is IS_OBJECT, and the  *)
(* stray "switch (exp.type) {" that wraps the body of analyze is dropped.  *)
(* The body of ALLOC_CONST names IS_STRING, AS_CPPSTRING and ALLOC_STRING   *)
(* where its parameters stand; the last two do not compile for a number or *)
(* a boolean and are read as the parameters converter and allocator, the   *)
(* test IS_STRING compiles and stays.                                      *)
(* What is well-formed is never repaired: a missing break, "return 1", a   *)
(* missing operand byte, a loop that starts at 0.                          *)
(*                                                                         *)
(* Numbers (IEEE doubles in the source) are integers here.  Addresses are  *)
(* object ids (positions in heap); a deleted object keeps its id, so a     *)
(* dangling pointer is visible.  Undefined behaviour (an out-of-range      *)
(* vector access, a use of a deleted object, a read of an inactive union   *)
(* member) ends a run in status "ub"; the uninitialised mark bit of a new  *)
(* object is a nondeterministic Boolean, one per step for the objects the  *)
(* step allocates.  A size_t is an integer; a negative one stands for the  *)
(* wrapped value.                                                          *)
(***************************************************************************)
EXTENDS Integers, Sequences, FiniteSets, TLC

VARIABLES
    status,          \* "init", "running", "halted", "died", "ub", "down"
    err,             \* the fatal error (or undefined behaviour) that ended the run
    program,         \* index in Programs of the program given to exec (0: none)
    heap,            \* every object ever allocated, by id
    objects,         \* Traceable::objects
    bytesAllocated,  \* Traceable::bytesAllocated
    globals,         \* Global::globals
    compiler,        \* EvaCompiler's members, and the literals it compiled
    stack,           \* EvaVM::stack, the slots written so far
    sp,              \* EvaVM::sp - stack.begin()
    bp,              \* EvaVM::bp - stack.begin()
    ip,              \* EvaVM::ip as [co, off]
    fn,              \* EvaVM::fn
    callStack,       \* EvaVM::callStack
    result,          \* what eval returned
    hist             \* history: the collector's cycles, the invocations

vars == <<status, err, program, heap, objects, bytesAllocated, globals, compiler,
          stack, sp, bp, ip, fn, callStack, result, hist>>

-----------------------------------------------------------------------------
(* Small helpers.                                                          *)

Min(a, b) == IF a < b THEN a ELSE b

Max(a, b) == IF a > b THEN a ELSE b

Range(s) == {s[i] : i \in DOMAIN s}

EmptyMap == [x \in {} |-> 0]

Has(m, k) == k \in DOMAIN m

Put(m, k, v) == (k :> v) @@ m

\* size_t arithmetic: a size_t is kept as an integer, and a negative one stands
\* for the value wrapped around 2^64; a < b on two size_t values
SizeLess(a, b) == a >= 0 /\ (b < 0 \/ a < b)

\* (uint8_t) of an int
Byte(n) == n % 256

-----------------------------------------------------------------------------
(* EvaValue.h: values.                                                     *)

NUMBER(v) == [type |-> "NUMBER", number |-> v, boolean |-> FALSE, object |-> 0]

BOOLEANV(v) == [type |-> "BOOLEAN", number |-> 0, boolean |-> v, object |-> 0]

OBJECT(o) == [type |-> "OBJECT", number |-> 0, boolean |-> FALSE, object |-> o]

IS_NUMBER(v) == v.type = "NUMBER"

IS_BOOLEAN(v) == v.type = "BOOLEAN"

IS_OBJECT(v) == v.type = "OBJECT"

\* sizeof of each object struct (LP64, libstdc++): the size operator new is given
SizeOf(type) ==
    CASE type = "STRING" -> 56
      [] type = "CODE" -> 176
      [] type = "NATIVE" -> 96
      [] type = "FUNCTION" -> 56
      [] type = "CELL" -> 40
      [] type = "CLASS" -> 112
      [] type = "INSTANCE" -> 80

\* An object as its constructor leaves it.  marked is not set by any constructor.
NewObject(type) ==
    [type |-> type, marked |-> FALSE, size |-> SizeOf(type), deleted |-> 0,
     string |-> "", name |-> "", arity |-> 0,
     constants |-> <<>>, code |-> <<>>, scopeLevel |-> 0, locals |-> <<>>,
     cellNames |-> <<>>, freeCount |-> 0,
     co |-> 0, cells |-> <<>>, value |-> NUMBER(0), inv |-> 0]

StringObject(str) == [NewObject("STRING") EXCEPT !.string = str]

NativeObject(name, arity) == [NewObject("NATIVE") EXCEPT !.name = name, !.arity = arity]

CodeObject(name, arity) == [NewObject("CODE") EXCEPT !.name = name, !.arity = arity]

CellObject(value) == [NewObject("CELL") EXCEPT !.value = value]

FunctionObject(co) == [NewObject("FUNCTION") EXCEPT !.co = co]

\* Traceable::operator new on the memory m = [heap, objects, bytesAllocated];
\* junk is the value the uninitialised mark bit happens to hold.
OperatorNew(m, obj, junk) ==
    [m EXCEPT !.heap = Append(m.heap, [obj EXCEPT !.marked = junk]),
              !.objects = Append(m.objects, Len(m.heap) + 1),
              !.bytesAllocated = m.bytesAllocated + obj.size]

\* the object the last OperatorNew returned
LastNew(m) == Len(m.heap)

\* a delete that leaves the counter alone: the variant C29 has to tell from
\* operator delete
OperatorDelete_keep(m, o) == [m EXCEPT !.heap[o].deleted = @ + 1]

\* Traceable::operator delete
OperatorDelete(m, o) ==
    [m EXCEPT !.heap[o].deleted = @ + 1,
              !.bytesAllocated = m.bytesAllocated - m.heap[o].size]

Live(h, o) == o \in 1..Len(h) /\ h[o].deleted = 0

IS_OBJECT_TYPE(h, v, type) == IS_OBJECT(v) /\ h[v.object].type = type

-----------------------------------------------------------------------------
(* Global.h: the global table.                                             *)

\* Global::getGlobalIndex: scans last to first; -1 when absent
getGlobalIndex(g, name) ==
    LET hits == {i \in 1..Len(g) : g[i].name = name}
    IN  IF hits = {} THEN -1
        ELSE (CHOOSE i \in hits : \A j \in hits : j <= i) - 1

exists(g, name) == getGlobalIndex(g, name) # -1

\* define without the look-up: the variant C10 has to tell from define
defineAlways(g, name) == Append(g, [name |-> name, value |-> NUMBER(0)])

\* Global::define
define(g, name) ==
    IF getGlobalIndex(g, name) # -1 THEN g
    ELSE Append(g, [name |-> name, value |-> NUMBER(0)])

\* Global::addConst
addConst(g, name, value) ==
    IF exists(g, name) THEN g
    ELSE Append(g, [name |-> name, value |-> NUMBER(value)])

\* Global::addNativeFunction on m = [heap, objects, bytesAllocated, globals]
addNativeFunction(m, name, arity, junk) ==
    IF exists(m.globals, name) THEN m
    ELSE LET n == OperatorNew(m, NativeObject(name, arity), junk)
         IN  [n EXCEPT !.globals = Append(m.globals,
                                          [name |-> name, value |-> OBJECT(LastNew(n))])]

\* Global::set; the DIE of an index out of range is left to the caller
set(g, index, value) == [g EXCEPT ![index + 1].value = value]

\* EvaVM::setGlobalVariables
setGlobalVariables(m, junk) ==
    LET a == addNativeFunction(m, "native-square", 1, junk)
        b == addNativeFunction(a, "sum", 2, junk)
    IN  [b EXCEPT !.globals = addConst(b.globals, "VERSION", 1)]

-----------------------------------------------------------------------------
(* The AST the parser delivers (Exp): NUMBER, STRING, SYMBOL, LIST.  A node *)
(* is identified by its path from the root, as the source identifies it by *)
(* its address.                                                            *)

Num(n) == [type |-> "NUMBER", number |-> n, string |-> "", list |-> <<>>]

Str(s) == [type |-> "STRING", number |-> 0, string |-> s, list |-> <<>>]

Sym(s) == [type |-> "SYMBOL", number |-> 0, string |-> s, list |-> <<>>]

Lst(l) == [type |-> "LIST", number |-> 0, string |-> "", list |-> l]

\* exp.list[k], k counted from 0 as in the source
Child(exp, k) == exp.list[k + 1]

\* the path of exp.list[k]
Sub(path, k) == Append(path, k)

\* a DIE that logs and returns: the variant C7 has to tell from DIE
DieContinues(c, msg) == c

\* DIE: the fatal error channel; the process ends
Die(c, msg) == IF c.status \notin {"ok", "running"} THEN c ELSE [c EXCEPT !.status = "died", !.err = msg]

\* undefined behaviour
Ub(c, msg) == IF c.status \notin {"ok", "running"} THEN c ELSE [c EXCEPT !.status = "ub", !.err = msg]

-----------------------------------------------------------------------------
(* Scope.h                                                                 *)

\* decl is history: the names addLocal registered in the scope, the declarations
Scope(type, parent) ==
    [type |-> type, parent |-> parent, allocInfo |-> EmptyMap, free |-> {}, cells |-> {},
     decl |-> {}]

\* Scope::addLocal
ScopeAddLocal(s, name) ==
    [s EXCEPT !.allocInfo = Put(@, name, IF s.type = "GLOBAL" THEN "GLOBAL" ELSE "LOCAL"),
              !.decl = @ \cup {name}]

\* Scope::addCell: sets allocInfo only; the cells set is not touched
addCell(s, name) == [s EXCEPT !.allocInfo = Put(@, name, "CELL")]

\* Scope::addFree
addFree(s, name) == [s EXCEPT !.free = @ \cup {name}, !.allocInfo = Put(@, name, "CELL")]

\* Scope::resolve on the scopes ss, from scope sid
RECURSIVE resolve(_, _, _, _)
resolve(ss, sid, name, allocType) ==
    IF Has(ss[sid].allocInfo, name)
    THEN [status |-> "ok", owner |-> sid, allocType |-> allocType]
    ELSE LET t1 == IF ss[sid].type = "FUNCTION" THEN "CELL" ELSE allocType
         IN  IF ss[sid].parent = 0
             THEN [status |-> "died", owner |-> 0, allocType |-> t1]
             ELSE resolve(ss, ss[sid].parent, name,
                          IF ss[ss[sid].parent].type = "GLOBAL" THEN "GLOBAL" ELSE t1)

\* the loop of Scope::promote
RECURSIVE threadFree(_, _, _, _)
threadFree(ss, scope, name, owner) ==
    IF scope = owner THEN ss
    ELSE threadFree([ss EXCEPT ![scope] = addFree(@, name)], ss[scope].parent, name, owner)

\* Scope::promote
promote(ss, sid, name, owner) ==
    threadFree([ss EXCEPT ![owner] = addCell(@, name)], sid, name, owner)

\* Scope::maybePromote
maybePromote(c, sid, name) ==
    LET s == c.scopes[sid]
        initAllocType == IF Has(s.allocInfo, name) THEN s.allocInfo[name]
                         ELSE IF s.type = "GLOBAL" THEN "GLOBAL" ELSE "LOCAL"
    IN  IF initAllocType = "CELL" THEN c
        ELSE LET r == resolve(c.scopes, sid, name, initAllocType)
                 ss == [c.scopes EXCEPT ![sid].allocInfo = Put(@, name, r.allocType)]
             IN  IF r.status # "ok" THEN Die(c, "ReferenceError")
                 ELSE [c EXCEPT !.scopes = IF r.allocType = "CELL"
                                           THEN promote(ss, sid, name, r.owner)
                                           ELSE ss]

\* allocInfo[name] of the std::map: a missing name is inserted as AllocType{} = GLOBAL
AllocInfoAt(s, name) == IF Has(s.allocInfo, name) THEN s.allocInfo[name] ELSE "GLOBAL"

-----------------------------------------------------------------------------
(* EvaCompiler::analyze                                                    *)

RECURSIVE analyze(_, _, _, _)
RECURSIVE analyzeList(_, _, _, _, _)

RECURSIVE analyzeSpan(_, _, _, _, _, _)

\* the iterations lo..hi of the loop below, in the order of the loop; the span is
\* halved so that a long list does not nest the evaluation once per element
analyzeSpan(exp, path, lo, hi, scope, c) ==
    IF c.status # "ok" \/ lo > hi THEN c
    ELSE IF lo = hi THEN analyze(Child(exp, lo), Sub(path, lo), scope, c)
    ELSE analyzeSpan(exp, path, (lo + hi) \div 2 + 1, hi, scope,
                     analyzeSpan(exp, path, lo, (lo + hi) \div 2, scope, c))

\* for (i = from; i < exp.list.size(); i++) analyze(exp.list[i], scope)
analyzeList(exp, path, i, scope, c) ==
    analyzeSpan(exp, path, i, Len(exp.list) - 1, scope, c)

\* make_shared<Scope>(type, scope); scopeInfo_[&exp] = newScope
NewScope(c, path, type, parent) ==
    [c EXCEPT !.scopes = Append(@, Scope(type, parent)),
              !.scopeInfo = Put(@, path, Len(c.scopes) + 1)]

\* newScope->addLocal of the first n parameters
RECURSIVE AddParams(_, _, _, _)
AddParams(ss, sid, params, n) ==
    IF n = 0 THEN ss
    ELSE [AddParams(ss, sid, params, n - 1) EXCEPT
              ![sid] = ScopeAddLocal(@, Child(params, n - 1).string)]

analyzeBegin(exp, path, scope, c) ==
    LET c1 == NewScope(c, path, IF scope = 0 THEN "GLOBAL" ELSE "BLOCK", scope)
    IN  analyzeList(exp, path, 1, Len(c1.scopes), c1)

analyzeVar(exp, path, scope, c) ==
    analyze(Child(exp, 2), Sub(path, 2), scope,
            [c EXCEPT !.scopes[scope] = ScopeAddLocal(@, Child(exp, 1).string)])

analyzeDef(exp, path, scope, c) ==
    LET fnName == Child(exp, 1).string
        c1 == [c EXCEPT !.scopes[scope] = ScopeAddLocal(@, fnName)]
        c2 == NewScope(c1, path, "FUNCTION", scope)
        new == Len(c2.scopes)
        arity == Len(Child(exp, 2).list)
        c3 == [c2 EXCEPT !.scopes =
                  AddParams([@ EXCEPT ![new] = ScopeAddLocal(@, fnName)],
                            new, Child(exp, 2), arity)]
    IN  analyze(Child(exp, 3), Sub(path, 3), new, c3)

\* the parameter count is taken from exp.list[2], the body
analyzeLambda(exp, path, scope, c) ==
    LET c1 == NewScope(c, path, "FUNCTION", scope)
        new == Len(c1.scopes)
        arity == Len(Child(exp, 2).list)
    IN  IF arity > Len(Child(exp, 1).list)
        THEN Ub(c1, "analyze lambda: exp.list[1].list[i] out of range")
        ELSE analyze(Child(exp, 2), Sub(path, 2), new,
                     [c1 EXCEPT !.scopes = AddParams(@, new, Child(exp, 1), arity)])

analyze(exp, path, scope, c) ==
    IF c.status # "ok" THEN c
    ELSE IF exp.type = "SYMBOL" THEN
        IF exp.string \in {"true", "false"} THEN c
        ELSE maybePromote(c, scope, exp.string)
    ELSE IF exp.type = "LIST" THEN
        IF exp.list = <<>> THEN Ub(c, "analyze: exp.list[0] of an empty list")
        ELSE LET tag == Child(exp, 0)
             IN  IF tag.type = "SYMBOL" THEN
                     CASE tag.string = "begin" -> analyzeBegin(exp, path, scope, c)
                       [] tag.string = "var" -> analyzeVar(exp, path, scope, c)
                       [] tag.string = "def" -> analyzeDef(exp, path, scope, c)
                       [] tag.string = "lambda" -> analyzeLambda(exp, path, scope, c)
                       [] OTHER -> analyzeList(exp, path, 1, scope, c)
                 ELSE analyzeList(exp, path, 0, scope, c)
    ELSE c

-----------------------------------------------------------------------------
(* bytecode/OpCode.h                                                       *)

OP_HALT == 0

OP_CONST == 1

OP_ADD == 2

OP_SUB == 3

OP_MUL == 4

OP_DIV == 5

OP_COMPARE == 6

OP_JMP_IF_FALSE == 7

OP_JMP == 8

OP_GET_GLOBAL == 9

OP_SET_GLOBAL == 10

OP_POP == 11

OP_GET_LOCAL == 12

OP_SET_LOCAL == 13

OP_SCOPE_EXIT == 14

OP_CALL == 15

OP_RETURN == 16

OP_GET_CELL == 17

OP_SET_CELL == 18

OP_LOAD_CELL == 19

OP_MAKE_FUNCTION == 20

OP_NEW == 21

OP_GET_PROP == 22

OP_SET_PROP == 23

-----------------------------------------------------------------------------
(* CodeObject (EvaValue.h)                                                 *)

\* CodeObject::addLocal
CodeAddLocal(co, name) ==
    [co EXCEPT !.locals = Append(@, [name |-> name, scopeLevel |-> co.scopeLevel])]

\* CodeObject::addConst
CodeAddConst(co, value) == [co EXCEPT !.constants = Append(@, value)]

\* the last index i of the sequence names with names[i] = name, counted from 0; -1 if none
LastIndexOf(names, name) ==
    LET hits == {i \in 1..Len(names) : names[i] = name}
    IN  IF hits = {} THEN -1
        ELSE (CHOOSE i \in hits : \A j \in hits : j <= i) - 1

\* CodeObject::getLocalIndex
getLocalIndex(co, name) ==
    LastIndexOf([i \in 1..Len(co.locals) |-> co.locals[i].name], name)

\* CodeObject::getCellIndex: the search runs only if locals is not empty
getCellIndex(co, name) ==
    IF Len(co.locals) > 0 THEN LastIndexOf(co.cellNames, name) ELSE -1

-----------------------------------------------------------------------------
(* EvaCompiler: helpers of gen.  The compiler state c holds the compiler's *)
(* members, the memory and the global table, and ret, the value the last  *)
(* helper returned.  Once the compiler has died, or run into undefined     *)
(* behaviour, every step leaves c as it is.                                *)

Ok(c) == c.status = "ok"

\* the names of the programs, in the order of std::set<std::string>
SortedNames ==
    <<"a", "add3", "b", "c", "f", "g", "h", "i", "k", "lambda", "main",
      "make-adder", "n", "p", "q", "r", "s", "sum", "v", "x", "y", "z">>

\* the elements of a std::set<std::string> in iteration order
InOrder(S) == SelectSeq(SortedNames, LAMBDA n : n \in S)

\* EvaCompiler::emit
emit(c, code) == IF c.status # "ok" THEN c ELSE [c EXCEPT !.heap[c.co].code = Append(@, Byte(code))]

\* emit(a); emit(b)
emit2(c, a, b) == IF c.status # "ok" THEN c ELSE emit(emit(c, a), b)

\* emit(op); emit(0); emit(0)
emitJump(c, op) == IF c.status # "ok" THEN c ELSE emit(emit(emit(c, op), 0), 0)

\* emit(c.ret): the value the call in the argument returned
emitRet(c) == emit(c, c.ret)

\* EvaCompiler::getOffset
getOffset(c) == Len(c.heap[c.co].code) % 65536

\* EvaCompiler::writeByteAtOffset
writeByteAtOffset(c, offset, value) ==
    IF c.status # "ok" THEN c
    ELSE IF offset < 0 \/ offset >= Len(c.heap[c.co].code)
    THEN Ub(c, "writeByteAtOffset: out of range")
    ELSE [c EXCEPT !.heap[c.co].code[offset + 1] = Byte(value)]

\* a patch that writes the low byte first: the variant C31 has to tell from
\* patchJumpAddress
patchJumpAddress_low(c, offset, value) ==
    writeByteAtOffset(writeByteAtOffset(c, offset, value % 256),
                      offset + 1, (value \div 256) % 256)

\* EvaCompiler::patchJumpAddress
patchJumpAddress(c, offset, value) ==
    writeByteAtOffset(writeByteAtOffset(c, offset, (value \div 256) % 256),
                      offset + 1, value % 256)

\* EvaCompiler::createCodeObjectValue; ret is the new code object
createCodeObjectValue(c, name, arity) ==
    IF c.status # "ok" THEN c
    ELSE [OperatorNew(c, CodeObject(name, arity), c.junk) EXCEPT
             !.codeObjects = Append(@, Len(c.heap) + 1),
             !.constantObjects = @ \cup {Len(c.heap) + 1},
             !.ret = Len(c.heap) + 1]

\* the constants of the current code object that IS_STRING accepts
StringConsts(c) ==
    {i \in 1..Len(c.heap[c.co].constants) :
        IS_OBJECT_TYPE(c.heap, c.heap[c.co].constants[i], "STRING")}

\* ALLOC_CONST without the loop: the variant C8 has to tell from ALLOC_CONST
ALLOC_CONST_append(c, kind, value) ==
    IF c.status # "ok" THEN c
    ELSE IF kind = "STRING"
    THEN [OperatorNew(c, StringObject(value), c.junk) EXCEPT
             !.heap[c.co] = CodeAddConst(@, OBJECT(Len(c.heap) + 1)),
             !.found = FALSE]
    ELSE [c EXCEPT !.heap[c.co] = CodeAddConst(@, value), !.found = FALSE]

\* ALLOC_CONST.  The loop looks at the constants IS_STRING accepts and compares
\* converter(constant) with the value; a hit makes the enclosing function return 1
\* (ret = 1, found); a miss appends allocator(value).  For a number or a boolean
\* the converter reads a member of the value that a string constant does not hold.
ALLOC_CONST(c, kind, value) ==
    IF c.status # "ok" THEN c
    ELSE IF kind = "STRING"
    THEN IF \E i \in StringConsts(c) :
                c.heap[c.heap[c.co].constants[i].object].string = value
         THEN [c EXCEPT !.ret = 1, !.found = TRUE]
         ELSE [OperatorNew(c, StringObject(value), c.junk) EXCEPT
                  !.heap[c.co] = CodeAddConst(@, OBJECT(Len(c.heap) + 1)),
                  !.found = FALSE]
    ELSE IF StringConsts(c) # {}
    THEN Ub(c, "ALLOC_CONST: converter of a constant of another type")
    ELSE [c EXCEPT !.heap[c.co] = CodeAddConst(@, value), !.found = FALSE]

\* return co->constants.size() - 1, unless ALLOC_CONST has returned
LastConstIdx(c) ==
    IF c.status # "ok" \/ c.found THEN c ELSE [c EXCEPT !.ret = Len(c.heap[c.co].constants) - 1]

\* EvaCompiler::numericConstIdx
numericConstIdx(c, value) == LastConstIdx(ALLOC_CONST(c, "NUMBER", NUMBER(value)))

\* constantObjects_.insert(co->constants.back().object), unless ALLOC_CONST has returned
InsertBack(c) ==
    IF c.status # "ok" \/ c.found THEN c
    ELSE [c EXCEPT !.constantObjects =
              @ \cup {c.heap[c.co].constants[Len(c.heap[c.co].constants)].object}]

\* a stringConstIdx that does not put the string in the constant set: the variant
\* C30 has to tell from stringConstIdx
stringConstIdx_noRoot(c, value) == LastConstIdx(ALLOC_CONST(c, "STRING", value))

\* EvaCompiler::stringConstIdx
stringConstIdx(c, value) == LastConstIdx(InsertBack(ALLOC_CONST(c, "STRING", value)))

\* EvaCompiler::booleanConstIdx
booleanConstIdx(c, value) == LastConstIdx(ALLOC_CONST(c, "BOOLEAN", BOOLEANV(value)))

\* history: the literal compiled into the current code object and the operand
\* emitted after its OP_CONST
logLit(c, value) ==
    IF c.status # "ok" THEN c
    ELSE [c EXCEPT !.lits = @ \cup {[co |-> c.co, idx |-> c.ret, value |-> value]}]

\* history: the jump operand patched at offset at of the current code object, and
\* the offset the jump has to reach
logJump(c, kind, at, target) ==
    IF c.status # "ok" THEN c
    ELSE [c EXCEPT !.jumps = @ \cup {[co |-> c.co, kind |-> kind, at |-> at,
                                      target |-> target]}]

\* EvaCompiler::isTaggedList
isTaggedList(exp, tag) ==
    /\ exp.type = "LIST"
    /\ exp.list # <<>>
    /\ Child(exp, 0).type = "SYMBOL"
    /\ Child(exp, 0).string = tag

isDeclaration(exp) ==
    isTaggedList(exp, "var") \/ isTaggedList(exp, "def") \/ isTaggedList(exp, "class")

isLambda(exp) == isTaggedList(exp, "lambda")

isBlock(exp) == isTaggedList(exp, "begin")

\* EvaCompiler::isGlobalScope
isGlobalScope(c) == c.heap[c.co].name = "main" /\ c.heap[c.co].scopeLevel = 1

\* EvaCompiler::isFunctionBody
isFunctionBody(c) == c.heap[c.co].name # "main" /\ c.heap[c.co].scopeLevel = 1

\* EvaCompiler::blockEnter
blockEnter(c) == IF c.status # "ok" THEN c ELSE [c EXCEPT !.heap[c.co].scopeLevel = @ + 1]

\* the loop of EvaCompiler::getVarsCountOnScopeExit.  It reads locals.back()
\* without asking whether locals has become empty.
RECURSIVE PopLocals(_, _)
PopLocals(c, n) ==
    IF Len(c.heap[c.co].locals) = 0
    THEN Ub(c, "getVarsCountOnScopeExit: back() of empty locals")
    ELSE IF c.heap[c.co].locals[Len(c.heap[c.co].locals)].scopeLevel
            = c.heap[c.co].scopeLevel
    THEN PopLocals([c EXCEPT !.heap[c.co].locals = SubSeq(@, 1, Len(@) - 1)], n + 1)
    ELSE [c EXCEPT !.ret = n]

\* EvaCompiler::getVarsCountOnScopeExit; ret is the count
getVarsCountOnScopeExit(c) ==
    IF c.status # "ok" THEN c
    ELSE IF Len(c.heap[c.co].locals) > 0 THEN PopLocals(c, 0) ELSE [c EXCEPT !.ret = 0]

\* EvaCompiler::blockExit after getVarsCountOnScopeExit has returned c.ret
emitScopeExit(c) ==
    IF c.status # "ok" THEN c
    ELSE IF c.ret > 0 \/ c.heap[c.co].arity > 0
    THEN emit2(c, OP_SCOPE_EXIT,
               IF isFunctionBody(c) THEN c.ret + c.heap[c.co].arity + 1 ELSE c.ret)
    ELSE c

\* co->scopeLevel--
levelDown(c) == IF c.status # "ok" THEN c ELSE [c EXCEPT !.heap[c.co].scopeLevel = @ - 1]

\* EvaCompiler::blockExit
blockExit(c) ==
    IF c.status # "ok" THEN c
    ELSE levelDown(emitScopeExit(getVarsCountOnScopeExit(c)))

\* scopeStack_.top()
Top(c) == c.scopeStack[Len(c.scopeStack)]

\* scopeStack_.push
pushScope(c, scope) == IF c.status # "ok" THEN c ELSE [c EXCEPT !.scopeStack = Append(@, scope)]

\* scopeStack_.pop
popScope(c) == IF c.status # "ok" THEN c ELSE [c EXCEPT !.scopeStack = SubSeq(@, 1, Len(@) - 1)]

\* Scope::getNameGetter and Scope::getNameSetter of scopeStack_.top(): ret is the
\* allocation the switch reads; allocInfo[name] inserts a missing name as GLOBAL.
\* defaulted is history: the names that were missing, by scope
getName(c, name) ==
    IF c.status # "ok" THEN c
    ELSE IF c.scopeStack = <<>> THEN Ub(c, "top() of an empty scope stack")
    ELSE [c EXCEPT !.scopes[Top(c)].allocInfo =
                       IF Has(@, name) THEN @ ELSE Put(@, name, "GLOBAL"),
                   !.defaulted = IF Has(c.scopes[Top(c)].allocInfo, name) THEN @
                                 ELSE @ \cup {[scope |-> Top(c), name |-> name]},
                   !.ret = AllocInfoAt(c.scopes[Top(c)], name)]

\* compareOps_
compareOps == [op \in {"<", ">", "==", ">=", "<=", "!="} |->
                  CASE op = "<" -> 0 [] op = ">" -> 1 [] op = "==" -> 2
                    [] op = ">=" -> 3 [] op = "<=" -> 4 [] op = "!=" -> 5]

-----------------------------------------------------------------------------
(* EvaCompiler::gen and EvaCompiler::compileFunction.  A construct that    *)
(* generates code for several sub-expressions is a chain of steps, each    *)
(* taking the compiler state the step before has left.                     *)

RECURSIVE gen(_, _, _)
RECURSIVE genFrom(_, _, _, _)
RECURSIVE genBlock(_, _, _, _)
RECURSIVE genSpan(_, _, _, _, _)
RECURSIVE compileFunction(_, _, _, _, _, _, _)

\* case ExpType::NUMBER
genNumber(exp, c) ==
    logLit(emitRet(numericConstIdx(emit(c, OP_CONST), exp.number)), NUMBER(exp.number))

\* case ExpType::STRING
genString(exp, c) ==
    logLit(emitRet(stringConstIdx(emit(c, OP_CONST), exp.string)),
           [type |-> "STRING", string |-> exp.string])

\* case ExpType::SYMBOL, a variable: after getNameGetter has returned c.ret
genGetter(c, varName) ==
    IF c.status # "ok" THEN c
    ELSE CASE c.ret = "LOCAL" ->
                emit2(c, OP_GET_LOCAL, getLocalIndex(c.heap[c.co], varName))
           [] c.ret = "CELL" ->
                emit2(c, OP_GET_CELL, getCellIndex(c.heap[c.co], varName))
           [] OTHER ->
                IF ~exists(c.globals, varName)
                THEN Die(emit(c, OP_GET_GLOBAL), "ReferenceError")
                ELSE emit2(c, OP_GET_GLOBAL, getGlobalIndex(c.globals, varName))

\* case ExpType::SYMBOL
genSymbol(exp, c) ==
    IF exp.string \in {"true", "false"}
    THEN logLit(emitRet(booleanConstIdx(emit(c, OP_CONST), exp.string = "true")),
                BOOLEANV(exp.string = "true"))
    ELSE genGetter(getName(c, exp.string), exp.string)

\* gen(exp.list[1]); gen(exp.list[2])
genOperands(exp, path, c) ==
    gen(Child(exp, 2), Sub(path, 2), gen(Child(exp, 1), Sub(path, 1), c))

\* GEN_BINARY_OP
GEN_BINARY_OP(exp, path, c, op) == emit(genOperands(exp, path, c), op)

\* a comparison
genCompare(exp, path, c) ==
    emit2(genOperands(exp, path, c), OP_COMPARE, compareOps[Child(exp, 0).string])

\* if: the alternate, and the patch of the jump over it at endAddr
\* the end patch of if with the address one too far, as the while has it: the
\* variant C19 has to tell from genIfEnd
genIfEnd_next(c, endAddr) ==
    IF c.status # "ok" THEN c
    ELSE logJump(patchJumpAddress(c, endAddr, getOffset(c) + 1), "if-end", endAddr,
                 getOffset(c))

genIfEnd(c, endAddr) ==
    IF c.status # "ok" THEN c
    ELSE logJump(patchJumpAddress(c, endAddr, getOffset(c)), "if-end", endAddr, getOffset(c))

genAlternate(exp, path, c) ==
    IF Len(exp.list) = 4 THEN gen(Child(exp, 3), Sub(path, 3), c) ELSE c

\* if: after the consequent and its OP_JMP; the first "endAddr" is elseJmpAddr
genIfElse(exp, path, c, elseJmpAddr) ==
    IF c.status # "ok" THEN c
    ELSE genIfEnd(genAlternate(exp, path,
                               logJump(patchJumpAddress(c, elseJmpAddr, getOffset(c)),
                                       "if-else", elseJmpAddr, getOffset(c))),
                  getOffset(c) - 2)

\* if: after the test and its OP_JMP_IF_FALSE
genIfThen(exp, path, c) ==
    IF c.status # "ok" THEN c
    ELSE genIfElse(exp, path,
                   emitJump(gen(Child(exp, 2), Sub(path, 2), c), OP_JMP),
                   getOffset(c) - 2)

genIf(exp, path, c) ==
    genIfThen(exp, path, emitJump(gen(Child(exp, 1), Sub(path, 1), c), OP_JMP_IF_FALSE))

\* while: the two patches, after the body and its OP_JMP
genWhileEnd(c, loopStartAddr, loopEndJmpAddr) ==
    IF c.status # "ok" THEN c
    ELSE logJump(logJump(patchJumpAddress(patchJumpAddress(c, getOffset(c) - 2,
                                                           loopStartAddr),
                                          loopEndJmpAddr, getOffset(c) + 1),
                         "while-back", getOffset(c) - 2, loopStartAddr),
                 "while-end", loopEndJmpAddr, getOffset(c))

\* while: after the test and its OP_JMP_IF_FALSE
genWhileBody(exp, path, c, loopStartAddr) ==
    IF c.status # "ok" THEN c
    ELSE genWhileEnd(emitJump(gen(Child(exp, 2), Sub(path, 2), c), OP_JMP),
                     loopStartAddr, getOffset(c) - 2)

genWhile(exp, path, c) ==
    genWhileBody(exp, path,
                 emitJump(gen(Child(exp, 1), Sub(path, 1), c), OP_JMP_IF_FALSE),
                 getOffset(c))

\* global->define(name); emit(OP_SET_GLOBAL); emit(global->getGlobalIndex(name))
defineGlobal(c, name) ==
    IF c.status # "ok" THEN c
    ELSE emit2([c EXCEPT !.globals = define(@, name)], OP_SET_GLOBAL,
               getGlobalIndex(define(c.globals, name), name))

\* co->addLocal(name)
addLocal(c, name) == IF c.status # "ok" THEN c ELSE [c EXCEPT !.heap[c.co] = CodeAddLocal(@, name)]

\* history: the local the var at the end of the current code declared: the offset
\* after its initializer and the index of the name in locals
logVar(c, varName) ==
    IF c.status # "ok" THEN c
    ELSE [c EXCEPT !.vars = @ \cup {[co |-> c.co, at |-> Len(c.heap[c.co].code),
                                     idx |-> getLocalIndex(c.heap[c.co], varName)]}]

\* var: after the initializer; opCodeSetter was read before it
genVarStore(c, varName, opCodeSetter) ==
    IF c.status # "ok" THEN c
    ELSE CASE opCodeSetter = "GLOBAL" -> defineGlobal(c, varName)
           [] opCodeSetter = "CELL" ->
                emit2([c EXCEPT !.heap[c.co].cellNames = Append(@, varName)],
                      OP_SET_CELL, OP_POP)
           [] OTHER -> logVar(addLocal(c, varName), varName)

\* var: the initializer
genVarInit(exp, path, c) ==
    IF isLambda(Child(exp, 2))
    THEN compileFunction(Child(exp, 2), Sub(path, 2), Child(exp, 1).string,
                         Child(Child(exp, 2), 1), Child(Child(exp, 2), 2),
                         Sub(Sub(path, 2), 2), c)
    ELSE gen(Child(exp, 2), Sub(path, 2), c)

\* var: after getNameSetter has returned c.ret
genVarNamed(exp, path, c) ==
    IF c.status # "ok" THEN c
    ELSE genVarStore(genVarInit(exp, path, c), Child(exp, 1).string, c.ret)

genVar(exp, path, c) == genVarNamed(exp, path, getName(c, Child(exp, 1).string))

\* set: after the value; opCodeSetter was read before it
genSetStore(c, varName, opCodeSetter) ==
    IF c.status # "ok" THEN c
    ELSE CASE opCodeSetter = "LOCAL" ->
                emit2(c, OP_SET_LOCAL, getLocalIndex(c.heap[c.co], varName))
           [] opCodeSetter = "CELL" ->
                emit2(c, OP_SET_CELL, getCellIndex(c.heap[c.co], varName))
           [] OTHER ->
                IF getGlobalIndex(c.globals, varName) = -1
                THEN Die(c, "ReferenceError")
                ELSE emit2(c, OP_SET_GLOBAL, getGlobalIndex(c.globals, varName))

\* set: after getNameSetter has returned c.ret
genSetNamed(exp, path, c) ==
    IF c.status # "ok" THEN c
    ELSE genSetStore(gen(Child(exp, 2), Sub(path, 2), c), Child(exp, 1).string, c.ret)

genSet(exp, path, c) == genSetNamed(exp, path, getName(c, Child(exp, 1).string))

\* begin: emit(OP_POP) after an expression that is neither the last nor a declaration
popUnlessKept(exp, i, c) ==
    IF i # Len(exp.list) - 1 /\ ~isDeclaration(Child(exp, i)) THEN emit(c, OP_POP) ELSE c

\* the iterations lo..hi of the loop of begin, in the order of the loop; the span
\* is halved so that a long block does not nest the evaluation once per element
genSpan(exp, path, lo, hi, c) ==
    IF c.status # "ok" \/ lo > hi THEN c
    ELSE IF lo = hi THEN popUnlessKept(exp, lo, gen(Child(exp, lo), Sub(path, lo), c))
    ELSE genSpan(exp, path, (lo + hi) \div 2 + 1, hi,
                 genSpan(exp, path, lo, (lo + hi) \div 2, c))

\* the loop of begin: for (i = from; i < exp.list.size(); i++)
genBlock(exp, path, i, c) == genSpan(exp, path, i, Len(exp.list) - 1, c)

genBegin(exp, path, c) ==
    IF ~Has(c.scopeInfo, path) THEN Die(c, "scopeInfo_.at: out_of_range")
    ELSE popScope(blockExit(genBlock(exp, path, 1,
                                     blockEnter(pushScope(c, c.scopeInfo[path])))))

\* def: after compileFunction
genDefStore(c, fnName) ==
    IF c.status # "ok" THEN c
    ELSE IF isGlobalScope(c) THEN defineGlobal(c, fnName)
    ELSE addLocal(c, fnName)

genDef(exp, path, c) ==
    genDefStore(compileFunction(exp, path, Child(exp, 1).string, Child(exp, 2),
                                Child(exp, 3), Sub(path, 3), c),
                Child(exp, 1).string)

genLambda(exp, path, c) ==
    compileFunction(exp, path, "lambda", Child(exp, 1), Child(exp, 2), Sub(path, 2), c)

\* for (i = from; i < exp.list.size(); i++) gen(exp.list[i])
genFrom(exp, path, i, c) ==
    IF c.status # "ok" \/ i >= Len(exp.list) THEN c
    ELSE genFrom(exp, path, i + 1, gen(Child(exp, i), Sub(path, i), c))

\* history: the OP_CALL emitted at offset at of the current code object, its
\* operand, the offset where the code of the call begins and the offset where the
\* loop over the elements begins
logCall(c, begin, loop, argc) ==
    IF c.status # "ok" THEN c
    ELSE [c EXCEPT !.calls = @ \cup {[co |-> c.co, at |-> Len(c.heap[c.co].code) - 2,
                                      begin |-> begin, loop |-> loop, argc |-> argc]}]

\* FUNCTION_CALL after the callee c0 -> c1: every element from index 0, then OP_CALL
callRest(exp, path, c0, c1) ==
    IF c1.status # "ok" THEN c1
    ELSE logCall(emit2(genFrom(exp, path, 0, c1), OP_CALL, Len(exp.list) - 1),
                 Len(c0.heap[c0.co].code), Len(c1.heap[c1.co].code), Len(exp.list) - 1)

\* FUNCTION_CALL: the callee, then every element from index 0, then OP_CALL
FUNCTION_CALL(exp, path, c) ==
    callRest(exp, path, c, gen(Child(exp, 0), Sub(path, 0), c))

\* compileFunction: the members of the new code object c.ret, the constant in
\* prevCo, and co = the new code object
fnOpen(c, prevCo, free, cells) ==
    IF c.status # "ok" THEN c
    ELSE [c EXCEPT !.co = c.ret,
                   !.heap[c.ret].freeCount = Len(free),
                   !.heap[c.ret].cellNames = free \o cells,
                   !.heap[prevCo] = CodeAddConst(@, OBJECT(c.ret))]

\* compileFunction: emit OP_SET_CELL for a parameter that has a cell index
fnParamCell(c, argName) ==
    IF c.status # "ok" \/ getCellIndex(c.heap[c.co], argName) = -1 THEN c
    ELSE emit2(c, OP_SET_CELL, getCellIndex(c.heap[c.co], argName))

\* compileFunction: the loop over the first n parameters
RECURSIVE fnParams(_, _, _)
fnParams(c, params, n) ==
    IF n = 0 THEN c
    ELSE fnParamCell(addLocal(fnParams(c, params, n - 1), Child(params, n - 1).string),
                     Child(params, n - 1).string)

\* compileFunction: the callee cleanup of a body that is no block, and OP_RETURN
fnReturn(c, body, arity) ==
    IF c.status # "ok" THEN c
    ELSE emit(IF isBlock(body) THEN c ELSE emit2(c, OP_SCOPE_EXIT, arity + 1), OP_RETURN)

\* emit(OP_CONST); emit(co->constants.size() - 1)
emitLastConst(c) ==
    IF c.status # "ok" THEN c ELSE emit2(c, OP_CONST, Len(c.heap[c.co].constants) - 1)

\* compileFunction, no free variable: the function is allocated at compile time
fnConst(c, prevCo) ==
    emitLastConst([OperatorNew(c, FunctionObject(c.co), c.junk) EXCEPT
                      !.constantObjects = @ \cup {Len(c.heap) + 1},
                      !.co = prevCo,
                      !.heap[prevCo] = CodeAddConst(@, OBJECT(Len(c.heap) + 1))])

\* compileFunction, a closure: emit OP_LOAD_CELL for the free variables free[i..]
RECURSIVE loadCells(_, _, _)
loadCells(c, free, i) ==
    IF i > Len(free) THEN c
    ELSE loadCells(emit2(c, OP_LOAD_CELL, getCellIndex(c.heap[c.co], free[i])),
                   free, i + 1)

fnClosure(c, prevCo, free) ==
    emit2(emitLastConst(loadCells([c EXCEPT !.co = prevCo], free, 1)),
          OP_MAKE_FUNCTION, Len(free))

\* compileFunction: after the body and OP_RETURN
fnFinish(c, prevCo, free) ==
    IF c.status # "ok" THEN c
    ELSE IF Len(free) = 0 THEN fnConst(c, prevCo)
    ELSE fnClosure(c, prevCo, free)

\* EvaCompiler::compileFunction
compileFunction(exp, path, fnName, params, body, bodyPath, c) ==
    IF c.status # "ok" THEN c
    ELSE IF ~Has(c.scopeInfo, path) THEN Die(c, "scopeInfo_.at: out_of_range")
    ELSE popScope(
           fnFinish(
             fnReturn(
               gen(body, bodyPath,
                   fnParams(
                     addLocal(
                       fnOpen(createCodeObjectValue(pushScope(c, c.scopeInfo[path]),
                                                    fnName, Len(params.list)),
                              c.co,
                              InOrder(c.scopes[c.scopeInfo[path]].free),
                              InOrder(c.scopes[c.scopeInfo[path]].cells)),
                       fnName),
                     params, Len(params.list))),
               body, Len(params.list)),
             c.co, InOrder(c.scopes[c.scopeInfo[path]].free)))

\* case ExpType::LIST
genList(exp, path, c) ==
    IF exp.list = <<>> THEN Ub(c, "gen: exp.list[0] of an empty list")
    ELSE IF Child(exp, 0).type # "SYMBOL" THEN FUNCTION_CALL(exp, path, c)
    ELSE CASE Child(exp, 0).string = "+" -> GEN_BINARY_OP(exp, path, c, OP_ADD)
           [] Child(exp, 0).string = "-" -> GEN_BINARY_OP(exp, path, c, OP_SUB)
           [] Child(exp, 0).string = "*" -> GEN_BINARY_OP(exp, path, c, OP_MUL)
           [] Child(exp, 0).string = "/" -> GEN_BINARY_OP(exp, path, c, OP_DIV)
           [] Child(exp, 0).string \in DOMAIN compareOps -> genCompare(exp, path, c)
           [] Child(exp, 0).string = "if" -> genIf(exp, path, c)
           [] Child(exp, 0).string = "while" -> genWhile(exp, path, c)
           [] Child(exp, 0).string = "var" -> genVar(exp, path, c)
           [] Child(exp, 0).string = "set" -> genSet(exp, path, c)
           [] Child(exp, 0).string = "begin" -> genBegin(exp, path, c)
           [] Child(exp, 0).string = "def" -> genDef(exp, path, c)
           [] Child(exp, 0).string = "lambda" -> genLambda(exp, path, c)
           [] OTHER -> FUNCTION_CALL(exp, path, c)

\* EvaCompiler::gen
gen(exp, path, c) ==
    IF c.status # "ok" THEN c
    ELSE CASE exp.type = "NUMBER" -> genNumber(exp, c)
           [] exp.type = "STRING" -> genString(exp, c)
           [] exp.type = "SYMBOL" -> genSymbol(exp, c)
           [] OTHER -> genList(exp, path, c)

\* EvaCompiler::compile: main = AS_FUNCTION(ALLOC_FUNCTION(co)) and its insertion
\* in constantObjects_, for the code object createCodeObjectValue returned
allocMain(c) ==
    [OperatorNew(c, FunctionObject(c.ret), c.junk) EXCEPT
        !.co = c.ret,
        !.main = Len(c.heap) + 1,
        !.constantObjects = @ \cup {Len(c.heap) + 1}]

\* EvaCompiler::compile
compile(exp, c) ==
    emit(gen(exp, <<>>,
             analyze(exp, <<>>, 0, allocMain(createCodeObjectValue(c, "main", 0)))),
         OP_HALT)

-----------------------------------------------------------------------------
(* EvaVM.h: the machine.  A machine record m holds the VM's members, the   *)
(* memory, the global table and ret, the value the last helper returned.   *)

STACK_LIMIT == 512

GC_TRESHOLD == 1024

\* a stack slot that was never written
UNINIT == [type |-> "UNINIT", number |-> 0, boolean |-> FALSE, object |-> 0]

Running(m) == m.status = "running"

\* the slot stack[k], k counted from 0, can be read
Readable(m, k) == k >= 0 /\ k < Len(m.stack) /\ m.stack[k + 1].type # "UNINIT"

\* *(stack.begin() + k) = v
WriteSlot(m, k, v) ==
    IF k < 0 THEN Ub(m, "write below the stack base")
    ELSE IF k >= STACK_LIMIT THEN Ub(m, "write outside the stack")
    ELSE IF k < Len(m.stack) THEN [m EXCEPT !.stack[k + 1] = v]
    ELSE [m EXCEPT !.stack = @ \o [i \in 1..(k - Len(m.stack)) |-> UNINIT] \o <<v>>]

\* *sp = value; sp++
pushSlot(m, value) ==
    IF m.sp < 0 \/ m.sp >= STACK_LIMIT THEN Ub(m, "push: write outside the stack")
    ELSE [WriteSlot(m, m.sp, value) EXCEPT !.sp = @ + 1]

\* push with the limit test one late: the variant C6 has to tell from push
pushLate(m, value) ==
    IF ~Running(m) THEN m
    ELSE IF m.sp = STACK_LIMIT + 1 THEN Die(m, "StackOverflow")
    ELSE pushSlot(m, value)

\* EvaVM::push
push(m, value) ==
    IF ~Running(m) THEN m
    ELSE IF m.sp = STACK_LIMIT THEN Die(m, "StackOverflow")
    ELSE pushSlot(m, value)

\* push of the object the last OperatorNew returned
pushNew(m) == push(m, OBJECT(LastNew(m)))

\* EvaVM::pop; ret is the value
pop(m) ==
    IF ~Running(m) THEN m
    ELSE IF m.sp = 0 THEN Die(m, "EmptyStack")
    ELSE IF ~Readable(m, m.sp - 1) THEN Ub(m, "pop: read outside the stack")
    ELSE [m EXCEPT !.sp = @ - 1, !.ret = m.stack[m.sp]]

\* EvaVM::peek; ret is the value.  stack.size() is 512, never 0.
peek(m, offset) ==
    IF ~Running(m) THEN m
    ELSE IF m.sp - 1 - offset < 0 THEN Ub(m, "peek: read below the stack base")
    ELSE IF ~Readable(m, m.sp - 1 - offset) THEN Ub(m, "peek: read outside the stack")
    ELSE [m EXCEPT !.ret = m.stack[m.sp - offset]]

\* EvaVM::popN
popN(m, count) == IF ~Running(m) THEN m ELSE [m EXCEPT !.sp = @ - count]

\* the code the instruction pointer points into
CodeAt(m) == m.heap[m.ip.co].code

\* READ_BYTE; ret is the byte
READ_BYTE(m) ==
    IF ~Running(m) THEN m
    ELSE IF m.ip.off < 0 \/ m.ip.off >= Len(CodeAt(m)) THEN Ub(m, "read outside the code")
    ELSE [m EXCEPT !.ip.off = @ + 1, !.ret = CodeAt(m)[m.ip.off + 1]]

\* READ_SHORT; ret is the 16-bit value, high byte first
READ_SHORT(m) ==
    IF ~Running(m) THEN m
    ELSE IF m.ip.off < 0 \/ m.ip.off + 2 > Len(CodeAt(m)) THEN Ub(m, "read outside the code")
    ELSE [m EXCEPT !.ip.off = @ + 2,
                   !.ret = ((CodeAt(m)[m.ip.off + 1] * 256) % 65536)
                           + CodeAt(m)[m.ip.off + 2]]

\* TO_ADDRESS: &fn->co->code[index]
TO_ADDRESS(m, index) == [co |-> m.heap[m.fn].co, off |-> index]

-----------------------------------------------------------------------------
(* EvaCollector.h and the roots of EvaVM.h                                 *)

\* EvaVM::getStackGCRoots
getStackGCRoots(m) ==
    {m.stack[k].object : k \in {j \in 1..Min(m.sp, Len(m.stack)) : IS_OBJECT(m.stack[j])}}

\* EvaVM::getGlobalGCRoots
getGlobalGCRoots(m) ==
    {m.globals[k].value.object : k \in {j \in 1..Len(m.globals) : IS_OBJECT(m.globals[j].value)}}

\* EvaVM::getGCRoots
getGCRoots(m) == getStackGCRoots(m) \cup m.constantObjects \cup getGlobalGCRoots(m)

\* EvaCollector::getPointers: the cells of a function, the properties of an instance
\* (no instance exists: nothing allocates a class)
getPointers(h, o) ==
    IF h[o].type = "FUNCTION" THEN Range(h[o].cells) ELSE {}

\* EvaCollector::mark: the objects the worklist visits.  An object whose mark bit
\* is already set is visited and not expanded.
RECURSIVE Visited(_, _, _)
Visited(h, work, seen) ==
    IF work = {} THEN seen
    ELSE LET o == CHOOSE x \in work : TRUE
             next == IF Live(h, o) /\ ~h[o].marked THEN getPointers(h, o) ELSE {}
         IN  Visited(h, (work \cup next) \ (seen \cup {o}), seen \cup {o})

\* every pointer an object holds: the edges a collector has to follow
AllPointers(h, o) ==
    LET vals(s) == {s[k].object : k \in {j \in 1..Len(s) : IS_OBJECT(s[j])}}
    IN  CASE h[o].type = "FUNCTION" -> Range(h[o].cells) \cup {h[o].co}
          [] h[o].type = "CODE" -> vals(h[o].constants)
          [] h[o].type = "CELL" -> vals(<<h[o].value>>)
          [] OTHER -> {}

\* the objects reachable from roots by AllPointers
RECURSIVE Reachable(_, _, _)
Reachable(h, work, seen) ==
    IF work = {} THEN seen
    ELSE LET o == CHOOSE x \in work : TRUE
             next == IF Live(h, o) THEN AllPointers(h, o) ELSE {}
         IN  Reachable(h, (work \cup next) \ (seen \cup {o}), seen \cup {o})

\* EvaCollector::sweep over the registry objs[i..]
RECURSIVE sweep(_, _, _)
sweep(m, objs, i) ==
    IF i > Len(objs) THEN m
    ELSE LET o == objs[i]
         IN  IF m.heap[o].marked
             THEN sweep([m EXCEPT !.heap[o].marked = FALSE], objs, i + 1)
             ELSE sweep(OperatorDelete([m EXCEPT !.objects = SelectSeq(@, LAMBDA x : x # o)], o),
                        objs, i + 1)

\* EvaCollector::mark: the mark bit of every visited object is set
RECURSIVE setMarks(_, _, _)
setMarks(h, seen, i) ==
    IF i > Len(h) THEN h
    ELSE setMarks(IF i \in seen THEN [h EXCEPT ![i].marked = TRUE] ELSE h, seen, i + 1)

\* EvaCollector::gc.  hist records the cycle: the objects it freed that the roots
\* reach (lost) and the objects it kept that the roots do not reach (kept).
collect(m, roots) ==
    LET seen == Visited(m.heap, roots, {})
        reach == Reachable(m.heap, roots, {})
        swept == sweep([m EXCEPT !.heap = setMarks(@, seen, 1)], m.objects, 1)
        freed == Range(m.objects) \ Range(swept.objects)
    IN  IF \E o \in seen : ~Live(m.heap, o)
        THEN Ub(m, "mark: use of a deleted object")
        ELSE [swept EXCEPT !.hist.cycles = @ + 1,
                           !.hist.lost = @ \cup (freed \cap reach),
                           !.hist.kept = @ \cup (Range(swept.objects) \ reach)]

\* EvaVM::maybeGC
maybeGC(m) ==
    IF ~Running(m) \/ SizeLess(m.bytesAllocated, GC_TRESHOLD) THEN m
    ELSE IF getGCRoots(m) = {} THEN m
    ELSE collect(m, getGCRoots(m))

\* MEM(allocator, ...): maybeGC(), then the allocation; ret is the new object
MEM(m, obj) ==
    LET g == maybeGC(m)
        n == OperatorNew(g, obj, g.junk)
    IN  IF ~Running(g) THEN g ELSE [n EXCEPT !.ret = LastNew(n)]

\* Traceable::cleanup
RECURSIVE deleteAll(_, _, _)
deleteAll(m, objs, i) ==
    IF i > Len(objs) THEN m ELSE deleteAll(OperatorDelete(m, objs[i]), objs, i + 1)

\* cleanup that only clears the registry: the variant C14 has to tell from cleanup
cleanupClear(m) == [m EXCEPT !.objects = <<>>]

cleanup(m) == [deleteAll(m, m.objects, 1) EXCEPT !.objects = <<>>]

-----------------------------------------------------------------------------
(* EvaVM::eval: one operator per case of the switch.  Each takes the       *)
(* machine after the opcode byte has been read.                            *)

\* the object a value points to can be dereferenced
Deref(m, v) == IS_OBJECT(v) /\ Live(m.heap, v.object)

\* case OP_HALT
hHALT(m) ==
    LET p == pop(m)
    IN  IF Running(p) THEN [p EXCEPT !.status = "halted", !.result = p.ret] ELSE p

\* case OP_CONST
hCONST(m) ==
    LET r == READ_BYTE(m)
        constants == r.heap[r.heap[r.fn].co].constants
    IN  IF ~Running(r) THEN r
        ELSE IF r.ret >= Len(constants) THEN Ub(r, "constants[i] out of range")
        ELSE push(r, constants[r.ret + 1])

\* case OP_ADD
hADD(m) ==
    LET p2 == pop(m)
        p1 == pop(p2)
        op2 == p2.ret
        op1 == p1.ret
    IN  IF ~Running(p1) THEN p1
        ELSE IF IS_NUMBER(op1) /\ IS_NUMBER(op2)
        THEN push(p1, NUMBER(op1.number + op2.number))
        ELSE IF IS_OBJECT(op1) /\ ~Deref(p1, op1) THEN Ub(p1, "use of a deleted object")
        ELSE IF ~IS_OBJECT_TYPE(p1.heap, op1, "STRING") THEN p1
        ELSE IF IS_OBJECT(op2) /\ ~Deref(p1, op2) THEN Ub(p1, "use of a deleted object")
        ELSE IF ~IS_OBJECT_TYPE(p1.heap, op2, "STRING") THEN p1
        ELSE LET a == MEM(p1, StringObject(p1.heap[op1.object].string \o p1.heap[op2.object].string))
             IN  push(a, OBJECT(a.ret))

\* BINARY_OP: AS_NUMBER of both operands; kind is "-", "*" or "/"
BINARY_OP(m, kind) ==
    LET p2 == pop(m)
        p1 == pop(p2)
        op2 == p2.ret
        op1 == p1.ret
    IN  IF ~Running(p1) THEN p1
        ELSE IF ~IS_NUMBER(op1) \/ ~IS_NUMBER(op2) THEN Ub(p1, "AS_NUMBER of a non-number")
        ELSE IF kind = "-" THEN push(p1, NUMBER(op1.number - op2.number))
        ELSE IF kind = "*" THEN push(p1, NUMBER(op1.number * op2.number))
        ELSE IF op2.number = 0 THEN Ub(p1, "quotient by zero is outside the integers")
        ELSE push(p1, NUMBER(op1.number \div op2.number))

\* COMPARE_VALUES; a and b are integers (numbers, or the addresses of strings)
COMPARE_VALUES(op, a, b) ==
    CASE op = 0 -> a < b
      [] op = 1 -> a > b
      [] op = 2 -> a = b
      [] op = 3 -> a >= b
      [] op = 4 -> a <= b
      [] op = 5 -> a # b

\* case OP_JMP_IF_FALSE
hJMP_IF_FALSE(m) ==
    LET p == pop(m)
        r == READ_SHORT(p)
    IN  IF ~Running(p) THEN p
        ELSE IF ~IS_BOOLEAN(p.ret) THEN Ub(p, "AS_BOOLEAN of a non-boolean")
        ELSE IF ~Running(r) THEN r
        ELSE IF ~p.ret.boolean THEN [r EXCEPT !.ip = TO_ADDRESS(r, r.ret)]
        ELSE r

\* case OP_COMPARE: no break, control falls into case OP_JMP_IF_FALSE
hCOMPARE(m) ==
    LET r == READ_BYTE(m)
        p2 == pop(r)
        p1 == pop(p2)
        op == r.ret
        op2 == p2.ret
        op1 == p1.ret
        pushed ==
            IF IS_NUMBER(op1) /\ IS_NUMBER(op2)
            THEN IF op \in 0..5
                 THEN push(p1, BOOLEANV(COMPARE_VALUES(op, op1.number, op2.number)))
                 ELSE Ub(p1, "read of the uninitialised res")
            ELSE IF IS_OBJECT(op1) /\ ~Deref(p1, op1) THEN Ub(p1, "use of a deleted object")
            ELSE IF ~IS_OBJECT_TYPE(p1.heap, op1, "STRING") THEN p1
            ELSE IF IS_OBJECT(op2) /\ ~Deref(p1, op2) THEN Ub(p1, "use of a deleted object")
            ELSE IF ~IS_OBJECT_TYPE(p1.heap, op2, "STRING") THEN p1
            ELSE IF op \in 0..5
                 THEN push(p1, BOOLEANV(COMPARE_VALUES(op, op1.object, op2.object)))
                 ELSE Ub(p1, "read of the uninitialised res")
    IN  IF ~Running(p1) THEN p1 ELSE hJMP_IF_FALSE(pushed)

\* case OP_JMP
hJMP(m) ==
    LET r == READ_SHORT(m)
    IN  IF ~Running(r) THEN r ELSE [r EXCEPT !.ip = TO_ADDRESS(r, r.ret)]

\* case OP_GET_GLOBAL
hGET_GLOBAL(m) ==
    LET r == READ_BYTE(m)
    IN  IF ~Running(r) THEN r
        ELSE IF r.ret >= Len(r.globals) THEN Ub(r, "globals[i] out of range")
        ELSE push(r, r.globals[r.ret + 1].value)

\* case OP_SET_GLOBAL
hSET_GLOBAL(m) ==
    LET r == READ_BYTE(m)
        p == pop(r)
    IN  IF ~Running(p) THEN p
        ELSE IF r.ret >= Len(p.globals) THEN Die(p, "Global doesn't exist")
        ELSE [p EXCEPT !.globals = set(p.globals, r.ret, p.ret)]

\* case OP_POP
hPOP(m) == pop(m)

\* case OP_GET_LOCAL
hGET_LOCAL(m) ==
    LET r == READ_BYTE(m)
    IN  IF ~Running(r) THEN r
        ELSE IF ~Readable(r, r.bp + r.ret) THEN Ub(r, "bp[i]: read outside the stack")
        ELSE push(r, r.stack[r.bp + r.ret + 1])

\* case OP_SET_LOCAL
hSET_LOCAL(m) ==
    LET r == READ_BYTE(m)
        v == peek(r, 0)
    IN  IF ~Running(v) THEN v ELSE WriteSlot(v, v.bp + r.ret, v.ret)

\* fn->cells[i] can be dereferenced
CellAt(m, i) ==
    /\ i < Len(m.heap[m.fn].cells)
    /\ Live(m.heap, m.heap[m.fn].cells[i + 1])

\* case OP_GET_CELL
hGET_CELL(m) ==
    LET r == READ_BYTE(m)
    IN  IF ~Running(r) THEN r
        ELSE IF ~Live(r.heap, r.fn) THEN Ub(r, "use of a deleted function")
        ELSE IF ~CellAt(r, r.ret) THEN Ub(r, "cells[i] out of range, null or deleted")
        ELSE push(r, r.heap[r.heap[r.fn].cells[r.ret + 1]].value)

\* case OP_SET_CELL
hSET_CELL(m) ==
    LET r == READ_BYTE(m)
        v == peek(r, 0)
        a == MEM(v, [CellObject(v.ret) EXCEPT !.inv = v.hist.inv])
    IN  IF ~Running(v) THEN v
        ELSE IF ~Live(v.heap, v.fn) THEN Ub(v, "use of a deleted function")
        ELSE IF Len(v.heap[v.fn].cells) <= r.ret
        THEN IF ~Running(a) THEN a
             ELSE IF ~Live(a.heap, a.fn) THEN Ub(a, "use of a deleted function")
             ELSE [a EXCEPT !.heap[a.fn].cells = Append(@, a.ret)]
        ELSE IF ~CellAt(v, r.ret) THEN Ub(v, "cells[i] null or deleted")
        ELSE [v EXCEPT !.heap[v.heap[v.fn].cells[r.ret + 1]].value = v.ret]

\* OP_LOAD_CELL pushing a copy of the cell: the variant C4 has to tell from it
hLOAD_CELL_copy(m) ==
    LET r == READ_BYTE(m)
    IN  IF ~Running(r) THEN r
        ELSE IF ~Live(r.heap, r.fn) THEN Ub(r, "use of a deleted function")
        ELSE IF r.ret >= Len(r.heap[r.fn].cells) THEN Ub(r, "cells[i] out of range")
        ELSE pushNew(OperatorNew(r, CellObject(r.heap[r.heap[r.fn].cells[r.ret + 1]].value),
                                 FALSE))

\* case OP_LOAD_CELL
hLOAD_CELL(m) ==
    LET r == READ_BYTE(m)
    IN  IF ~Running(r) THEN r
        ELSE IF ~Live(r.heap, r.fn) THEN Ub(r, "use of a deleted function")
        ELSE IF r.ret >= Len(r.heap[r.fn].cells) THEN Ub(r, "cells[i] out of range")
        ELSE push(r, OBJECT(r.heap[r.fn].cells[r.ret + 1]))

\* the loop of OP_MAKE_FUNCTION: pops i cells into the new function f
RECURSIVE popCells(_, _, _)
popCells(m, f, i) ==
    IF i = 0 \/ ~Running(m) THEN m
    ELSE LET p == pop(m)
         IN  IF ~Running(p) THEN p
             ELSE IF ~IS_OBJECT(p.ret) THEN Ub(p, "AS_CELL of a non-object")
             ELSE popCells([p EXCEPT !.heap[f].cells = Append(@, p.ret.object)], f, i - 1)

\* case OP_MAKE_FUNCTION
hMAKE_FUNCTION(m) ==
    LET p == pop(m)
        r == READ_BYTE(p)
        a == MEM(r, [FunctionObject(p.ret.object) EXCEPT !.inv = m.hist.inv])
        c == popCells(a, a.ret, r.ret)
    IN  IF ~Running(p) THEN p
        ELSE IF ~IS_OBJECT(p.ret) THEN Ub(p, "AS_CODE of a non-object")
        ELSE IF ~Running(c) THEN c
        ELSE push(c, OBJECT(a.ret))

\* case OP_SCOPE_EXIT
hSCOPE_EXIT(m) ==
    LET r == READ_BYTE(m)
        v == peek(r, 0)
        w == WriteSlot(v, v.sp - 1 - r.ret, v.ret)
    IN  IF ~Running(v) THEN v ELSE popN(w, r.ret)

\* the native functions installed by setGlobalVariables, by name
callNative(m, name) ==
    LET v2 == peek(m, 0)
        v1 == peek(m, 1)
    IN  IF name = "native-square"
        THEN IF ~Running(v2) THEN v2
             ELSE IF ~IS_NUMBER(v2.ret) THEN Ub(m, "AS_NUMBER of a non-number")
             ELSE push(m, NUMBER(v2.ret.number * v2.ret.number))
        ELSE IF ~Running(v2) THEN v2
             ELSE IF ~IS_NUMBER(v2.ret) THEN Ub(m, "AS_NUMBER of a non-number")
             ELSE IF ~Running(v1) THEN v1
             ELSE IF ~IS_NUMBER(v1.ret) THEN Ub(m, "AS_NUMBER of a non-number")
             ELSE push(m, NUMBER(v1.ret.number + v2.ret.number))

\* std::vector::resize of the cells of the function f; new entries are null (0)
resizeCells(m, f, n) ==
    LET cells == m.heap[f].cells
    IN  [m EXCEPT !.heap[f].cells =
            IF n <= Len(cells) THEN SubSeq(cells, 1, n)
            ELSE cells \o [i \in 1..(n - Len(cells)) |-> 0]]

\* case OP_CALL
hCALL(m) ==
    LET r == READ_BYTE(m)
        argsCount == r.ret
        f == peek(r, argsCount)
        fnValue == f.ret
        n == callNative(f, f.heap[fnValue.object].name)
        res == pop(n)
        callee == fnValue.object
        frame == [ra |-> f.ip, bp |-> f.bp, fn |-> f.fn, inv |-> f.hist.inv]
    IN  IF ~Running(f) THEN f
        ELSE IF IS_OBJECT(fnValue) /\ ~Deref(f, fnValue) THEN Ub(f, "use of a deleted object")
        ELSE IF IS_OBJECT_TYPE(f.heap, fnValue, "NATIVE")
        THEN push(popN(res, argsCount + 1), res.ret)
        ELSE IF ~IS_OBJECT_TYPE(f.heap, fnValue, "FUNCTION")
        THEN Ub(f, "AS_FUNCTION of a value that is no function")
        ELSE IF ~Live(f.heap, f.heap[callee].co) THEN Ub(f, "use of a deleted code object")
        ELSE [resizeCells(f, callee, f.heap[f.heap[callee].co].freeCount)
                EXCEPT !.callStack = Append(@, frame),
                       !.fn = callee,
                       !.bp = f.sp - argsCount - 1,
                       !.ip = [co |-> f.heap[callee].co, off |-> 0],
                       !.hist.invCount = @ + 1,
                       !.hist.inv = f.hist.invCount + 1]

\* OP_RETURN that pops the frame and restores ip only: the variant C16 has to
\* tell from OP_RETURN
hRETURN_ipOnly(m) ==
    IF m.callStack = <<>> THEN Ub(m, "top() of an empty call stack")
    ELSE [m EXCEPT !.ip = m.callStack[Len(m.callStack)].ra,
                   !.callStack = SubSeq(@, 1, Len(@) - 1)]

\* case OP_RETURN
hRETURN(m) ==
    IF m.callStack = <<>> THEN Ub(m, "top() of an empty call stack")
    ELSE LET callerFrame == m.callStack[Len(m.callStack)]
         IN  [m EXCEPT !.ip = callerFrame.ra, !.bp = callerFrame.bp, !.fn = callerFrame.fn,
                       !.hist.inv = callerFrame.inv,
                       !.callStack = SubSeq(@, 1, Len(@) - 1)]

\* case OP_NEW, OP_GET_PROP, OP_SET_PROP and default.  No class and no instance
\* is ever allocated, so the operand of AS_CLASS and AS_INSTANCE is neither.
hOTHER(m, opcode) ==
    LET p == pop(m)
        r == READ_BYTE(m)
        constants == r.heap[r.heap[r.fn].co].constants
        q == pop(r)
    IN  IF opcode = OP_NEW
        THEN IF ~Running(p) THEN p ELSE Ub(p, "AS_CLASS of a value that is no class")
        ELSE IF opcode = OP_GET_PROP
        THEN IF ~Running(r) THEN r
             ELSE IF r.ret >= Len(constants) THEN Ub(r, "constants[i] out of range")
             ELSE IF ~IS_OBJECT_TYPE(r.heap, constants[r.ret + 1], "STRING")
             THEN Ub(r, "AS_CPPSTRING of a value that is no string")
             ELSE IF ~Running(q) THEN q
             ELSE IF IS_OBJECT(q.ret) /\ ~Deref(q, q.ret) THEN Ub(q, "use of a deleted object")
             ELSE Die(q, "Unknown object for OP_GET_PROP")
        ELSE IF opcode = OP_SET_PROP
        THEN IF ~Running(r) THEN r
             ELSE IF r.ret >= Len(constants) THEN Ub(r, "constants[i] out of range")
             ELSE IF ~IS_OBJECT_TYPE(r.heap, constants[r.ret + 1], "STRING")
             THEN Ub(r, "AS_CPPSTRING of a value that is no string")
             ELSE IF ~Running(q) THEN q
             ELSE Ub(q, "AS_INSTANCE of a value that is no instance")
        ELSE Die(m, "Unknown Opcode")

-----------------------------------------------------------------------------
(* The programs given to exec, as the parser delivers them.                *)

\* EvaVM::exec wraps the text: "(begin " + program + ")"
Begin(items) == Lst(<<Sym("begin")>> \o items)

Call(name, args) == Lst(<<Sym(name)>> \o args)

Def(name, params, body) ==
    Lst(<<Sym("def"), Sym(name), Lst([i \in 1..Len(params) |-> Sym(params[i])]), body>>)

Lambda(params, body) ==
    Lst(<<Sym("lambda"), Lst([i \in 1..Len(params) |-> Sym(params[i])]), body>>)

Var(name, init) == Lst(<<Sym("var"), Sym(name), init>>)

Set(name, value) == Lst(<<Sym("set"), Sym(name), value>>)

\* the number of literals of the long program: one more than a byte can index
ManyLiterals == 257

Programs == <<
    \* (+ 1 2)
    Begin(<<Call("+", <<Num(1), Num(2)>>)>>),
    \* "a" "a"
    Begin(<<Str("a"), Str("a")>>),
    \* "a" "b" "b"
    Begin(<<Str("a"), Str("b"), Str("b")>>),
    \* (var x 1)
    Begin(<<Var("x", Num(1))>>),
    \* (sum 1 2)
    Begin(<<Call("sum", <<Num(1), Num(2)>>)>>),
    \* (set x 1)
    Begin(<<Set("x", Num(1))>>),
    \* (def f () (set x 1)) (f)
    Begin(<<Def("f", <<>>, Set("x", Num(1))), Call("f", <<>>)>>),
    \* (var f 0) (def f () (f)) (f)
    Begin(<<Var("f", Num(0)), Def("f", <<>>, Call("f", <<>>)), Call("f", <<>>)>>),
    \* (var a 0) (var b 0)
    \* (def f () (begin (var x 0) (set a (lambda () x)) (set b (lambda (p q r) (set x p)))))
    \* (f) (b 5 5 5) (a)
    Begin(<<Var("a", Num(0)), Var("b", Num(0)),
            Def("f", <<>>, Begin(<<Var("x", Num(0)),
                                   Set("a", Lambda(<<>>, Sym("x"))),
                                   Set("b", Lambda(<<"p", "q", "r">>, Set("x", Sym("p"))))>>)),
            Call("f", <<>>),
            Call("b", <<Num(5), Num(5), Num(5)>>),
            Call("a", <<>>)>>),
    \* (def make-adder (x) (lambda (y) (+ x y))) (var add3 (make-adder 3)) (add3 4)
    Begin(<<Def("make-adder", <<"x">>, Lambda(<<"y">>, Call("+", <<Sym("x"), Sym("y")>>))),
            Var("add3", Call("make-adder", <<Num(3)>>)),
            Call("add3", <<Num(4)>>)>>),
    \* (def f () 1) (def g () 2) (def h () 3) (+ "x" "y")
    Begin(<<Def("f", <<>>, Num(1)), Def("g", <<>>, Num(2)), Def("h", <<>>, Num(3)),
            Call("+", <<Str("x"), Str("y")>>)>>),
    \* (var x 10) (set x 20) x
    Begin(<<Var("x", Num(10)), Set("x", Num(20)), Sym("x")>>),
    \* (def f (a b) (begin (var c (+ a b)) (set c (* c 2)) c)) (f 1 2)
    Begin(<<Def("f", <<"a", "b">>,
                Begin(<<Var("c", Call("+", <<Sym("a"), Sym("b")>>)),
                        Set("c", Call("*", <<Sym("c"), Num(2)>>)),
                        Sym("c")>>)),
            Call("f", <<Num(1), Num(2)>>)>>),
    \* (- 5 (/ 4 2))
    Begin(<<Call("-", <<Num(5), Call("/", <<Num(4), Num(2)>>)>>)>>),
    \* (if true 1 2)
    Begin(<<Lst(<<Sym("if"), Sym("true"), Num(1), Num(2)>>)>>),
    \* (if (< 1 2) 1 2)
    Begin(<<Lst(<<Sym("if"), Call("<", <<Num(1), Num(2)>>), Num(1), Num(2)>>)>>),
    \* (var i 0) (while false (set i 1)) i
    Begin(<<Var("i", Num(0)),
            Lst(<<Sym("while"), Sym("false"), Set("i", Num(1))>>),
            Sym("i")>>),
    \* (if (> 1 2) 1 2)
    Begin(<<Lst(<<Sym("if"), Call(">", <<Num(1), Num(2)>>), Num(1), Num(2)>>)>>),
    \* (if (< 1 2) (+ (+ 1 2) (+ (+ 1 2) 3)) 2)
    Begin(<<Lst(<<Sym("if"), Call("<", <<Num(1), Num(2)>>),
                  Call("+", <<Call("+", <<Num(1), Num(2)>>),
                              Call("+", <<Call("+", <<Num(1), Num(2)>>), Num(3)>>)>>),
                  Num(2)>>)>>),
    \* "a" "b" "a"
    Begin(<<Str("a"), Str("b"), Str("a")>>),
    \* (var a 0) (def f () (begin (var x (+ "p" "q")) (set a (lambda () x)))) (f) (+ "r" "s")
    Begin(<<Var("a", Num(0)),
            Def("f", <<>>, Begin(<<Var("x", Call("+", <<Str("p"), Str("q")>>)),
                                   Set("a", Lambda(<<>>, Sym("x")))>>)),
            Call("f", <<>>),
            Call("+", <<Str("r"), Str("s")>>)>>),
    \* (def f () 1) (def g () 2) (def h () 3) (+ "x" "y") (+ "z" "r")
    Begin(<<Def("f", <<>>, Num(1)), Def("g", <<>>, Num(2)), Def("h", <<>>, Num(3)),
            Call("+", <<Str("x"), Str("y")>>),
            Call("+", <<Str("z"), Str("r")>>)>>),
    \* (def make-adder (x) (lambda (y p q) (+ x y))) (var add3 (make-adder 3)) (add3 4 0 0)
    Begin(<<Def("make-adder", <<"x">>,
                Lambda(<<"y", "p", "q">>, Call("+", <<Sym("x"), Sym("y")>>))),
            Var("add3", Call("make-adder", <<Num(3)>>)),
            Call("add3", <<Num(4), Num(0), Num(0)>>)>>),
    \* 1 2 3 ... 257
    Begin([k \in 1..ManyLiterals |-> Num(k)]),
    \* (+ 1 "a")
    Begin(<<Call("+", <<Num(1), Str("a")>>)>>),
    \* (def f () (begin 1 2)) (f)
    Begin(<<Def("f", <<>>, Begin(<<Num(1), Num(2)>>)), Call("f", <<>>)>>),
    \* (def f (n) n) (def g (n) (f n)) (g 7)
    Begin(<<Def("f", <<"n">>, Sym("n")),
            Def("g", <<"n">>, Call("f", <<Sym("n")>>)),
            Call("g", <<Num(7)>>)>>),
    \* (var i 0) (var s 0) (while (< i 10) (begin (set s (+ s i)) (set i (+ i 1)))) s
    Begin(<<Var("i", Num(0)), Var("s", Num(0)),
            Lst(<<Sym("while"), Call("<", <<Sym("i"), Num(10)>>),
                  Begin(<<Set("s", Call("+", <<Sym("s"), Sym("i")>>)),
                          Set("i", Call("+", <<Sym("i"), Num(1)>>))>>)>>),
            Sym("s")>>),
    \* VERSION
    Begin(<<Sym("VERSION")>>),
    \* (if false 1 2)
    Begin(<<Lst(<<Sym("if"), Sym("false"), Num(1), Num(2)>>)>>),
    \* (var r 0)
    \* (def f () (begin (var x 5) (var y 3) (set r (lambda (p q z) (- x y)))))
    \* (f) (r 0 0 0)
    Begin(<<Var("r", Num(0)),
            Def("f", <<>>, Begin(<<Var("x", Num(5)), Var("y", Num(3)),
                                   Set("r", Lambda(<<"p", "q", "z">>,
                                                   Call("-", <<Sym("x"), Sym("y")>>)))>>)),
            Call("f", <<>>),
            Call("r", <<Num(0), Num(0), Num(0)>>)>>),
    \* (def k () 0)
    \* (def f (v c) (begin (var x v) (lambda () x) c (c) x))
    \* (def h () (f 2 k))
    \* (f 1 h)
    Begin(<<Def("k", <<>>, Num(0)),
            Def("f", <<"v", "c">>,
                Begin(<<Var("x", Sym("v")),
                        Lambda(<<>>, Sym("x")),
                        Sym("c"),
                        Call("c", <<>>),
                        Sym("x")>>)),
            Def("h", <<>>, Call("f", <<Num(2), Sym("k")>>)),
            Call("f", <<Num(1), Sym("h")>>)>>),
    \* (var g 1) (def f (x) (begin x g (lambda () x) (begin g))) (f 1)
    Begin(<<Var("g", Num(1)),
            Def("f", <<"x">>,
                Begin(<<Sym("x"), Sym("g"), Lambda(<<>>, Sym("x")), Begin(<<Sym("g")>>)>>)),
            Call("f", <<Num(1)>>)>>),
    \* ((lambda (y) y) 5)
    Begin(<<Lst(<<Lambda(<<"y">>, Sym("y")), Num(5)>>)>>),
    \* (def f () "a") "b" (f)
    Begin(<<Def("f", <<>>, Str("a")), Str("b"), Call("f", <<>>)>>),
    \* (def f () (+ 1 (begin (var y 2) y))) (f)
    Begin(<<Def("f", <<>>, Call("+", <<Num(1), Begin(<<Var("y", Num(2)), Sym("y")>>)>>)),
            Call("f", <<>>)>>),
    \* (def f (a) (while a (set a false))) (f true)
    Begin(<<Def("f", <<"a">>, Lst(<<Sym("while"), Sym("a"), Set("a", Sym("false"))>>)),
            Call("f", <<Sym("true")>>)>>),
    \* (begin (var x 1) (lambda () x))
    Begin(<<Begin(<<Var("x", Num(1)), Lambda(<<>>, Sym("x"))>>)>>),
    \* (begin (var x 1) x)
    Begin(<<Begin(<<Var("x", Num(1)), Sym("x")>>)>>)
>>

-----------------------------------------------------------------------------
(* The state machine.                                                      *)

\* the machine record of the current state; junk is what an uninitialised
\* mark bit holds in the objects this step allocates
Machine(junk) ==
    [status |-> status, err |-> err, heap |-> heap, objects |-> objects,
     bytesAllocated |-> bytesAllocated, globals |-> globals,
     constantObjects |-> compiler.constantObjects,
     stack |-> stack, sp |-> sp, bp |-> bp, ip |-> ip, fn |-> fn,
     callStack |-> callStack, result |-> result, hist |-> hist,
     junk |-> junk, ret |-> 0]

\* m.ip is the loop-start offset of a while of the code it points into
AtLoopStart(m) ==
    \E j \in compiler.jumps :
        j.kind = "while-back" /\ j.co = m.ip.co /\ j.target = m.ip.off

\* the arrival of the current invocation at m.ip
Arrival(m) == <<m.hist.inv, m.ip.co, m.ip.off>>

\* history: the depth of the stack on the first arrival of an invocation at the
\* loop-start offset of a while
Arrive(m) ==
    IF m.status = "running" /\ AtLoopStart(m) /\ ~Has(m.hist.arrived, Arrival(m))
    THEN [m.hist EXCEPT !.arrived = Put(@, Arrival(m), m.sp)]
    ELSE m.hist

Apply(m) ==
    /\ status' = m.status
    /\ err' = m.err
    /\ heap' = m.heap
    /\ objects' = m.objects
    /\ bytesAllocated' = m.bytesAllocated
    /\ globals' = m.globals
    /\ stack' = m.stack
    /\ sp' = m.sp
    /\ bp' = m.bp
    /\ ip' = m.ip
    /\ fn' = m.fn
    /\ callStack' = m.callStack
    /\ result' = m.result
    /\ hist' = Arrive(m)
    /\ UNCHANGED <<program, compiler>>

NoCompiler ==
    [scopes |-> <<>>, scopeInfo |-> EmptyMap, scopeStack |-> <<>>, co |-> 0, main |-> 0,
     codeObjects |-> <<>>, constantObjects |-> {}, lits |-> {}, jumps |-> {},
     calls |-> {}, vars |-> {}, defaulted |-> {}]

\* the state after EvaVM's constructor
Constructed(m) ==
    /\ status = "init"
    /\ err = ""
    /\ program = 0
    /\ heap = m.heap
    /\ objects = m.objects
    /\ bytesAllocated = m.bytesAllocated
    /\ globals = m.globals
    /\ compiler = NoCompiler
    /\ stack = <<>>
    /\ sp = 0
    /\ bp = 0
    /\ ip = [co |-> 0, off |-> 0]
    /\ fn = 0
    /\ callStack = <<>>
    /\ result = NUMBER(0)

\* the memory before the first allocation
NoMemory == [heap |-> <<>>, objects |-> <<>>, bytesAllocated |-> 0, globals |-> <<>>]

Init ==
    \E junk \in BOOLEAN :
        /\ Constructed(setGlobalVariables(NoMemory, junk))
        /\ hist = [cycles |-> 0, lost |-> {}, kept |-> {}, inv |-> 0, invCount |-> 0,
                   arrived |-> EmptyMap]

\* the compiler state compile starts from; junk as in Machine
CompilerState(junk) ==
    [status |-> "ok", err |-> "", heap |-> heap, objects |-> objects,
     bytesAllocated |-> bytesAllocated, globals |-> globals,
     scopes |-> compiler.scopes, scopeInfo |-> compiler.scopeInfo,
     scopeStack |-> compiler.scopeStack, co |-> compiler.co,
     main |-> compiler.main, codeObjects |-> compiler.codeObjects,
     constantObjects |-> compiler.constantObjects,
     lits |-> compiler.lits, jumps |-> compiler.jumps, calls |-> compiler.calls,
     vars |-> compiler.vars, defaulted |-> compiler.defaulted,
     junk |-> junk, ret |-> 0, found |-> FALSE]

\* EvaVM::exec after compile has left the compiler state c: the set-up of eval
Start(c) ==
    /\ status' = IF c.status = "ok" THEN "running" ELSE c.status
    /\ err' = c.err
    /\ heap' = c.heap
    /\ objects' = c.objects
    /\ bytesAllocated' = c.bytesAllocated
    /\ globals' = c.globals
    /\ compiler' = [scopes |-> c.scopes, scopeInfo |-> c.scopeInfo,
                    scopeStack |-> c.scopeStack, co |-> c.co, main |-> c.main,
                    codeObjects |-> c.codeObjects,
                    constantObjects |-> c.constantObjects, lits |-> c.lits,
                    jumps |-> c.jumps, calls |-> c.calls,
                    vars |-> c.vars, defaulted |-> c.defaulted]
    /\ fn' = IF Ok(c) THEN c.main ELSE fn
    /\ ip' = IF Ok(c) THEN [co |-> c.heap[c.main].co, off |-> 0] ELSE ip
    /\ UNCHANGED <<stack, sp, bp, callStack, result, hist>>

\* EvaVM::exec of Programs[p]
Exec(p) ==
    \E junk \in BOOLEAN :
        /\ status = "init"
        /\ program' = p
        /\ Start(compile(Programs[p], CompilerState(junk)))

\* the opcode eval reads next is op
Decodes(op) ==
    /\ status = "running"
    /\ ip.off >= 0 /\ ip.off < Len(heap[ip.co].code)
    /\ heap[ip.co].code[ip.off + 1] = op

\* one turn of eval's loop for the opcode op
Step(op, junk) == READ_BYTE(Machine(junk))

\* READ_BYTE of the opcode outside the code
OpFetch ==
    /\ status = "running"
    /\ ~(ip.off >= 0 /\ ip.off < Len(heap[ip.co].code))
    /\ Apply(READ_BYTE(Machine(FALSE)))

OpHALT == Decodes(OP_HALT) /\ Apply(hHALT(Step(OP_HALT, FALSE)))

OpCONST == Decodes(OP_CONST) /\ Apply(hCONST(Step(OP_CONST, FALSE)))

OpADD == \E junk \in BOOLEAN : Decodes(OP_ADD) /\ Apply(hADD(Step(OP_ADD, junk)))

OpSUB == Decodes(OP_SUB) /\ Apply(BINARY_OP(Step(OP_SUB, FALSE), "-"))

OpMUL == Decodes(OP_MUL) /\ Apply(BINARY_OP(Step(OP_MUL, FALSE), "*"))

OpDIV == Decodes(OP_DIV) /\ Apply(BINARY_OP(Step(OP_DIV, FALSE), "/"))

OpCOMPARE == Decodes(OP_COMPARE) /\ Apply(hCOMPARE(Step(OP_COMPARE, FALSE)))

OpJMP_IF_FALSE == Decodes(OP_JMP_IF_FALSE) /\ Apply(hJMP_IF_FALSE(Step(OP_JMP_IF_FALSE, FALSE)))

OpJMP == Decodes(OP_JMP) /\ Apply(hJMP(Step(OP_JMP, FALSE)))

OpGET_GLOBAL == Decodes(OP_GET_GLOBAL) /\ Apply(hGET_GLOBAL(Step(OP_GET_GLOBAL, FALSE)))

OpSET_GLOBAL == Decodes(OP_SET_GLOBAL) /\ Apply(hSET_GLOBAL(Step(OP_SET_GLOBAL, FALSE)))

OpPOP == Decodes(OP_POP) /\ Apply(hPOP(Step(OP_POP, FALSE)))

OpGET_LOCAL == Decodes(OP_GET_LOCAL) /\ Apply(hGET_LOCAL(Step(OP_GET_LOCAL, FALSE)))

OpSET_LOCAL == Decodes(OP_SET_LOCAL) /\ Apply(hSET_LOCAL(Step(OP_SET_LOCAL, FALSE)))

OpGET_CELL == Decodes(OP_GET_CELL) /\ Apply(hGET_CELL(Step(OP_GET_CELL, FALSE)))

OpSET_CELL ==
    \E junk \in BOOLEAN : Decodes(OP_SET_CELL) /\ Apply(hSET_CELL(Step(OP_SET_CELL, junk)))

OpLOAD_CELL == Decodes(OP_LOAD_CELL) /\ Apply(hLOAD_CELL(Step(OP_LOAD_CELL, FALSE)))

OpMAKE_FUNCTION ==
    \E junk \in BOOLEAN :
        Decodes(OP_MAKE_FUNCTION) /\ Apply(hMAKE_FUNCTION(Step(OP_MAKE_FUNCTION, junk)))

OpSCOPE_EXIT == Decodes(OP_SCOPE_EXIT) /\ Apply(hSCOPE_EXIT(Step(OP_SCOPE_EXIT, FALSE)))

OpCALL == Decodes(OP_CALL) /\ Apply(hCALL(Step(OP_CALL, FALSE)))

OpRETURN == Decodes(OP_RETURN) /\ Apply(hRETURN(Step(OP_RETURN, FALSE)))

OpOTHER ==
    \E op \in 0..255 :
        /\ op >= OP_NEW
        /\ Decodes(op)
        /\ Apply(hOTHER(Step(op, FALSE), op))

\* ~EvaVM: Traceable::cleanup.  A run that ended in DIE has left the process.
Teardown ==
    /\ status \in {"init", "halted"}
    /\ Apply([cleanup(Machine(FALSE)) EXCEPT !.status = "down"])

Next ==
    \/ \E p \in 1..Len(Programs) : Exec(p)
    \/ OpFetch
    \/ OpHALT
    \/ OpCONST
    \/ OpADD
    \/ OpSUB
    \/ OpMUL
    \/ OpDIV
    \/ OpCOMPARE
    \/ OpJMP_IF_FALSE
    \/ OpJMP
    \/ OpGET_GLOBAL
    \/ OpSET_GLOBAL
    \/ OpPOP
    \/ OpGET_LOCAL
    \/ OpSET_LOCAL
    \/ OpGET_CELL
    \/ OpSET_CELL
    \/ OpLOAD_CELL
    \/ OpMAKE_FUNCTION
    \/ OpSCOPE_EXIT
    \/ OpCALL
    \/ OpRETURN
    \/ OpOTHER
    \/ Teardown

Spec == Init /\ [][Next]_vars

-----------------------------------------------------------------------------
(* The global table on its own: every sequence of the operations of        *)
(* Global.h on the table EvaVM's constructor has filled.                   *)

\* the table stops growing at MaxGlobals entries
MaxGlobals == 4

GlobalNames == {"VERSION", "x", "y"}

GlobalValues == {NUMBER(0), NUMBER(1)}

\* here hist is the last operation: its name, its argument, and whether the name
\* was in the table before it
InitGlobal ==
    \E junk \in BOOLEAN :
        /\ Constructed(setGlobalVariables(NoMemory, junk))
        /\ hist = [op |-> "none", name |-> "", present |-> FALSE]

MayGrow(name) == status = "init" /\ (exists(globals, name) \/ Len(globals) < MaxGlobals)

LastOp(op, name) == [op |-> op, name |-> name, present |-> exists(globals, name)]

GDefine ==
    \E name \in GlobalNames :
        /\ MayGrow(name)
        /\ globals' = define(globals, name)
        /\ hist' = LastOp("define", name)
        /\ UNCHANGED <<status, err, program, heap, objects, bytesAllocated, compiler,
                       stack, sp, bp, ip, fn, callStack, result>>

GAddConst ==
    \E name \in GlobalNames, value \in 0..1 :
        /\ MayGrow(name)
        /\ globals' = addConst(globals, name, value)
        /\ hist' = LastOp("addConst", name)
        /\ UNCHANGED <<status, err, program, heap, objects, bytesAllocated, compiler,
                       stack, sp, bp, ip, fn, callStack, result>>

GAddNativeFunction ==
    \E name \in GlobalNames, junk \in BOOLEAN :
        /\ MayGrow(name)
        /\ Apply([addNativeFunction(Machine(junk), name, 1, junk) EXCEPT
                     !.hist = LastOp("addNativeFunction", name)])

\* Global::set: DIE when the index is not in the table
GSet ==
    \E index \in 0..MaxGlobals, value \in GlobalValues :
        /\ status = "init"
        /\ IF index >= Len(globals)
           THEN Apply(Die([Machine(FALSE) EXCEPT !.status = "running",
                                                 !.hist = LastOp("set", "")],
                          "Global doesn't exist"))
           ELSE Apply([Machine(FALSE) EXCEPT !.globals = set(globals, index, value),
                                             !.hist = LastOp("set", "")])

NextGlobal == GDefine \/ GAddConst \/ GAddNativeFunction \/ GSet

SpecGlobal == InitGlobal /\ [][NextGlobal]_vars

-----------------------------------------------------------------------------
(* The properties.                                                         *)

\* the live Function objects that captured cells
Closures ==
    {f \in 1..Len(heap) : /\ heap[f].type = "FUNCTION"
                          /\ heap[f].deleted = 0
                          /\ heap[f].co \in 1..Len(heap)
                          /\ heap[heap[f].co].freeCount > 0}

\* the names a closure captured, by position in its cells
FreeNames(f) ==
    SubSeq(heap[heap[f].co].cellNames, 1,
           Min(heap[heap[f].co].freeCount, Len(heap[heap[f].co].cellNames)))

\* the string constants of a code object, by position
StringsOf(o) ==
    {i \in 1..Len(heap[o].constants) : IS_OBJECT_TYPE(heap, heap[o].constants[i], "STRING")}

\* the constant a compiled literal's operand selects is the literal
LitInPool(l) ==
    /\ l.idx >= 0 /\ l.idx < Len(heap[l.co].constants)
    /\ IF l.value.type = "STRING"
       THEN /\ IS_OBJECT_TYPE(heap, heap[l.co].constants[l.idx + 1], "STRING")
            /\ heap[heap[l.co].constants[l.idx + 1].object].string = l.value.string
       ELSE heap[l.co].constants[l.idx + 1] = l.value

\* C1: after every collection cycle, each object the roots (stack, globals,
\* constant set) reach over Function->cells and Code, Code->constants,
\* Cell->value is still in the registry and not freed: no cycle has freed an
\* object its roots reached.
C1_ReachableSurvive == hist.lost = {}

\* C2: a cycle frees every registry object its roots do not reach and takes it
\* off the registry; no object is deleted twice, by a later cycle or at teardown:
\* no cycle kept an unreachable object, no object was deleted more than once, no
\* deleted object is in the registry.
C2_UnreachableFreedOnce ==
    /\ hist.kept = {}
    /\ \A o \in 1..Len(heap) : heap[o].deleted <= 1
    /\ \A k \in 1..Len(objects) : heap[objects[k]].deleted = 0

\* C3: stack balance: when OP_HALT executes the operand stack holds exactly one
\* value, the result; nothing of earlier statements lies below it and the stack
\* is not empty.
C3_StackBalance == Decodes(OP_HALT) => sp = 1

C5_MakeAdder ==
    (program = 10 /\ status # "running") =>
        (status \in {"halted", "down"} /\ result = NUMBER(7))

\* C6: the operand stack holds at most 512 values: sp never exceeds STACK_LIMIT,
\* no slot beyond the capacity is written, push never writes at or beyond the
\* limit, and StackOverflow is the fatal error of a push at sp = 512.
C6_StackLimit ==
    /\ sp <= STACK_LIMIT
    /\ Len(stack) <= STACK_LIMIT
    /\ err = "push: write outside the stack" => sp < 0
    /\ err = "StackOverflow" => (status = "died" /\ sp = STACK_LIMIT)

\* the 512 pushes of program 8 succeeded and the next one was fatal
C6_Overflow ==
    /\ err = "StackOverflow" /\ status = "died"
    /\ sp = STACK_LIMIT /\ Len(stack) = STACK_LIMIT
    /\ \A k \in 1..Len(stack) : stack[k].type # "UNINIT"

\* C7: (set x v) with x declared nowhere and no global (programs 6 and 7) is a
\* ReferenceError at compile time: compile does not complete, the VM never starts,
\* so no OP_SET_GLOBAL, OP_SET_LOCAL or OP_SET_CELL for x executes; and a
\* ReferenceError is never raised by a running VM.
C7_SetUndeclared ==
    /\ program \in {6, 7} => (status = "died" /\ err = "ReferenceError")
    /\ err = "ReferenceError" => (status = "died" /\ fn = 0 /\ sp = 0 /\ hist.invCount = 0)

\* (def f () (set x 1)) (f) has been given to exec and compile has died
C7_Died == program = 7 /\ status = "died" /\ err = "ReferenceError" /\ fn = 0

\* C8: within each Code object no two constants are strings of equal content,
\* however often a literal occurs in the function's source.
C8_StringConstantsUnique ==
    \A o \in 1..Len(heap) :
        heap[o].type = "CODE" =>
            \A i \in StringsOf(o), j \in StringsOf(o) :
                i # j => heap[heap[o].constants[i].object].string #
                             heap[heap[o].constants[j].object].string

\* "a" "b" "a" has been compiled and has run: three literals, two constants
C8_Repeated ==
    /\ program = 20 /\ status = "halted"
    /\ Cardinality({l \in compiler.lits : l.value.type = "STRING"}) = 3
    /\ \E o \in 1..Len(heap) : heap[o].type = "CODE" /\ Cardinality(StringsOf(o)) = 2

\* C9: for every number, boolean or string literal the operand emitted after
\* OP_CONST is an index i with constants[i] equal to the literal, the index of the
\* existing entry when an equal one exists, so executing it pushes the literal.
C9_ConstIndex == \A l \in compiler.lits : LitInPool(l)

\* what one operation of Global.h may do to the table
C10Step ==
    /\ Len(globals') >= Len(globals)
    /\ \A i \in 1..Len(globals) :
           /\ globals'[i].name = globals[i].name
           /\ getGlobalIndex(globals, globals[i].name) = i - 1
           /\ getGlobalIndex(globals', globals[i].name) = i - 1
    /\ \A i \in 1..Len(globals'), j \in 1..Len(globals') :
           i # j => globals'[i].name # globals'[j].name
    /\ hist'.op = "define" =>
           IF hist'.present THEN globals' = globals
           ELSE globals' = Append(globals, [name |-> hist'.name, value |-> NUMBER(0)])

\* C10: global indices are stable: after any define, addConst, addNativeFunction
\* or set, every name keeps the index getGlobalIndex gave it; the table only
\* grows, no entry is removed or reordered, no name occurs twice; define of a
\* present name changes nothing and define of an absent name appends it with
\* the number 0.
C10_GlobalIndicesStable == [][C10Step]_vars

\* define has just been called for a name the table already held, in a table
\* that has grown to MaxGlobals entries, one of them set to 1
C10_Redefined ==
    /\ hist.op = "define" /\ hist.present
    /\ Len(globals) = MaxGlobals
    /\ \E i \in 1..Len(globals) : globals[i].name = hist.name /\ globals[i].value = NUMBER(1)

\* C11: taking a value from an empty operand stack is the fatal EmptyStack error:
\* sp never lies below the base, an EmptyStack error ends the process, and no
\* run reads or writes a slot below the base (peek aborts instead).
C11_EmptyStackFatal ==
    /\ sp >= 0
    /\ (err = "EmptyStack" => status \in {"died", "down"})
    /\ err \notin {"peek: read below the stack base", "write below the stack base"}

\* C12: an index beyond the 1-byte range is a compile-time error: compiling the
\* program of 257 literals (program 24), which needs more than 256 constants in
\* one Code object, aborts, and no operand emitted after OP_CONST is the
\* truncation of an index above 255.
C12_CapacityChecked ==
    /\ program = 24 => status = "died"
    /\ \A l \in compiler.lits : l.idx <= 255

\* the two operands on top of the stack, of an opcode that takes two
Operand1 == stack[sp - 1]

Operand2 == stack[sp]

\* both operands are numbers, or (withStrings) both are strings
WellTyped(withStrings) ==
    \/ IS_NUMBER(Operand1) /\ IS_NUMBER(Operand2)
    \/ /\ withStrings
       /\ Deref(Machine(FALSE), Operand1) /\ IS_OBJECT_TYPE(heap, Operand1, "STRING")
       /\ Deref(Machine(FALSE), Operand2) /\ IS_OBJECT_TYPE(heap, Operand2, "STRING")

\* the next instruction is an arithmetic or comparison opcode whose two operands
\* are on the stack with a wrong tag
MisTyped ==
    /\ sp >= 2 /\ sp <= Len(stack)
    /\ Operand1.type # "UNINIT" /\ Operand2.type # "UNINIT"
    /\ \/ (Decodes(OP_ADD) \/ Decodes(OP_COMPARE)) /\ ~WellTyped(TRUE)
       \/ (Decodes(OP_SUB) \/ Decodes(OP_MUL) \/ Decodes(OP_DIV)) /\ ~WellTyped(FALSE)

C13Step == MisTyped => status' = "died"

\* C13: a wrong operand tag reaching OP_ADD, OP_SUB, OP_MUL, OP_DIV or
\* OP_COMPARE is a fatal error: the instruction aborts execution; the VM does not
\* go on with the operands consumed and nothing pushed, or with a result made
\* from a payload of the wrong type.
C13_TypeErrorFatal == [][C13Step]_vars

\* C14: on teardown every heap object is freed: after Traceable::cleanup, run by
\* the destructor, every object ever put in the registry has been deleted exactly
\* once (by a collection cycle or by cleanup), the registry is empty and
\* bytesAllocated is 0.
C14_TeardownFreesAll ==
    status = "down" =>
        /\ objects = <<>>
        /\ bytesAllocated = 0
        /\ \A o \in 1..Len(heap) : heap[o].deleted = 1

\* the VM has been destroyed after a run in which the collector ran twice and
\* freed some of the objects
C14_DownAfterCycles ==
    /\ status = "down" /\ program = 9 /\ hist.cycles = 2
    /\ Len(heap) > 10
    /\ bytesAllocated = 0

\* C15: callee cleanup: when a user-defined function returns, the function slot
\* (slot 0, at bp), the arguments and the block locals are gone and only the
\* result is left in their place: at OP_RETURN the depth is the depth before the
\* callee value of slot 0 was pushed (bp) plus one, for arity 0 and for a body
\* that is a begin block as for the others.
C15_CalleeCleanup == (Decodes(OP_RETURN) /\ callStack # <<>>) => sp = bp + 1

\* the frame on top of the call stack
TopFrame == callStack[Len(callStack)]

\* every saved frame resumes behind the operand of an OP_CALL in the code of the
\* function it saved
FramesResume ==
    \A k \in 1..Len(callStack) :
        /\ callStack[k].ra.co = heap[callStack[k].fn].co
        /\ callStack[k].ra.off >= 2
        /\ heap[callStack[k].ra.co].code[callStack[k].ra.off - 1] = OP_CALL

C16Step ==
    /\ FramesResume
    /\ Len(callStack') > Len(callStack) =>
           /\ Decodes(OP_CALL)
           /\ callStack' = Append(callStack, TopFrame')
           /\ TopFrame'.ra = [co |-> ip.co, off |-> ip.off + 2]
           /\ TopFrame'.bp = bp /\ TopFrame'.fn = fn
           /\ fn' # fn \/ hist'.inv # hist.inv
    /\ (Decodes(OP_RETURN) /\ callStack # <<>>) =>
           /\ callStack' = SubSeq(callStack, 1, Len(callStack) - 1)
           /\ ip' = TopFrame.ra /\ bp' = TopFrame.bp /\ fn' = TopFrame.fn
    /\ Len(callStack') < Len(callStack) => Decodes(OP_RETURN)

\* C16: OP_CALL on a Function pushes one frame {ip, bp, fn}, ip being the
\* address behind its operand; OP_RETURN pops the most recent frame and restores
\* ip, bp and fn to exactly what that OP_CALL saved; nothing else pushes or pops
\* a frame, so frames are used last in, first out and a returned call leaves the
\* call stack as deep as it found it.
C16_FramesLIFO == [][C16Step]_vars

\* in (def f (n) n) (def g (n) (f n)) (g 7) the inner call has returned into the
\* invocation of g, whose own frame is still on the call stack
C16_InnerReturned ==
    /\ program = 27 /\ status = "running"
    /\ Len(callStack) = 1 /\ hist.invCount = 2 /\ hist.inv = 1
    /\ heap[heap[fn].co].name = "g"

\* the 2-byte operand the compiled code holds at the offset of a logged jump
Operand16(j) == heap[j.co].code[j.at + 1] * 256 + heap[j.co].code[j.at + 2]

\* C17: for (while test body) the OP_JMP_IF_FALSE after the test is patched with
\* the offset current at patch time, the first instruction after the back-jump
\* OP_JMP and its operand, and the back-jump with the loop-start offset; and
\* (var i 0) (var s 0) (while (< i 10) (begin (set s (+ s i)) (set i (+ i 1)))) s,
\* program 28, returns 45.
C17_WhileJumps ==
    /\ \A j \in compiler.jumps :
           j.kind \in {"while-end", "while-back"} => Operand16(j) = j.target
    /\ (program = 28 /\ status # "running") =>
           (status \in {"halted", "down"} /\ result = NUMBER(45))

\* C18: a program that refers to a preinstalled global it does not declare
\* passes scope analysis and reads the global's table entry: VERSION, program 29,
\* yields 1 and (sum 1 2), program 5, calls the native and yields 3; neither ends
\* in a ReferenceError.
C18_PreinstalledGlobals ==
    /\ (program = 29 /\ status # "running") =>
           (status \in {"halted", "down"} /\ result = NUMBER(1))
    /\ (program = 5 /\ status # "running") =>
           (status \in {"halted", "down"} /\ result = NUMBER(3))

\* the opcode in front of the operand of a logged jump
JumpOp(j) == heap[j.co].code[j.at]

NextOperand == heap[ip.co].code[ip.off + 2]

C20Step ==
    (/\ Decodes(OP_SET_GLOBAL)
     /\ ip.off + 1 < Len(heap[ip.co].code)
     /\ NextOperand < Len(globals)
     /\ sp >= 1 /\ sp <= Len(stack) /\ stack[sp].type # "UNINIT") =>
        /\ status' = "running"
        /\ globals'[NextOperand + 1].value = stack[sp]
        /\ sp' = sp
        /\ stack' = stack

\* C20: OP_SET_GLOBAL i writes the value on top of the operand stack into
\* globals[i] and does not pop it: sp and every stack slot are as before the
\* instruction, so the OP_POP the compiler emits at statement position removes
\* exactly that value.
C20_SetGlobalKeeps == [][C20Step]_vars

\* the next instruction is OP_COMPARE k, k a comparator, with two numbers or two
\* strings on top of the stack
ComparesWell ==
    /\ Decodes(OP_COMPARE)
    /\ ip.off + 1 < Len(heap[ip.co].code)
    /\ NextOperand \in 0..5
    /\ sp >= 2 /\ sp <= Len(stack)
    /\ WellTyped(TRUE)

\* what the k-th comparator yields for the operands on the stack
Compared ==
    IF IS_NUMBER(Operand1)
    THEN COMPARE_VALUES(NextOperand, Operand1.number, Operand2.number)
    ELSE COMPARE_VALUES(NextOperand, Operand1.object, Operand2.object)

C21Step ==
    ComparesWell =>
        /\ status' = "running"
        /\ sp' = sp - 1
        /\ stack'[sp'] = BOOLEANV(Compared)
        /\ ip' = [co |-> ip.co, off |-> ip.off + 2]

\* C21: OP_COMPARE k on two numbers or two strings pops both and pushes one
\* boolean, the k-th comparator applied to (op1, op2); it reads only its own
\* operand byte: afterwards the stack is one less deep, the boolean is on top
\* and ip is the address of the opcode plus 2.
C21_CompareStep == [][C21Step]_vars

\* the Function OP_MAKE_FUNCTION has just pushed
Made == stack'[sp'].object

\* the Cell the running function holds for the name
CellOf(name) == heap[fn].cells[getCellIndex(heap[heap[fn].co], name) + 1]

C22Step ==
    (Decodes(OP_MAKE_FUNCTION) /\ status' = "running") =>
        \A j \in 1..heap'[heap'[Made].co].freeCount :
            /\ j <= Len(heap'[Made].cells)
            /\ getCellIndex(heap[heap[fn].co], heap'[heap'[Made].co].cellNames[j])
                   \in 0..(Len(heap[fn].cells) - 1)
            /\ heap'[Made].cells[j] = CellOf(heap'[heap'[Made].co].cellNames[j])

\* C22: the Function OP_MAKE_FUNCTION n builds holds in cells[j] the Cell of the
\* j-th free variable of its Code's cellNames, the Cell the enclosing function
\* holds for that name, for every j < n; so OP_GET_CELL j in the closure reads
\* the variable cellNames[j], for n >= 2 as for n = 1.
C22_CapturedOrder == [][C22Step]_vars

\* the next instruction is OP_GET_CELL or OP_SET_CELL on an own cell of the
\* running function that exists
OnOwnCell ==
    /\ Decodes(OP_GET_CELL) \/ Decodes(OP_SET_CELL)
    /\ ip.off + 1 < Len(heap[ip.co].code)
    /\ NextOperand >= heap[heap[fn].co].freeCount
    /\ NextOperand < Len(heap[fn].cells)
    /\ heap[fn].cells[NextOperand + 1] \in 1..Len(heap)

\* C23: own cells are per invocation: a call of a Function starts with fn.cells
\* holding its freeCount captured cells and no other, and an own Cell an
\* invocation reads or writes is one that invocation created, also after a
\* nested call of the same Function object has run and returned.
C23_OwnCellsPerInvocation ==
    /\ (status = "running" /\ ip.off = 0 /\ callStack # <<>>) =>
           Len(heap[fn].cells) = heap[heap[fn].co].freeCount
    /\ OnOwnCell => heap[heap[fn].cells[NextOperand + 1]].inv = hist.inv

C24Step ==
    (Decodes(OP_SET_CELL) /\ status' = "running") =>
        /\ NextOperand < Len(heap'[fn].cells)
        /\ heap'[heap'[fn].cells[NextOperand + 1]].value = stack[sp]
        /\ sp' = sp /\ stack' = stack
        /\ NextOperand < Len(heap[fn].cells) => heap'[fn].cells = heap[fn].cells

\* C24: after OP_SET_CELL i the running function has a Cell at index i and its
\* value is the value on top of the stack; the stack is left as it was, and a
\* Cell that existed at index i is overwritten in place; for every i the
\* compiler emits, in whatever order own cells are first written.
C24_SetCellAtIndex == [][C24Step]_vars

\* the names a scope of the analysis classifies CELL
CellNamesOf(s) == {n \in DOMAIN s.allocInfo : s.allocInfo[n] = "CELL"}

\* C25: after the analysis every name a scope classifies CELL is registered in
\* that scope: in cells where the scope owns the variable, in free where the
\* scope is on the chain from the reference to the owner; so compileFunction
\* finds a captured parameter in cellNames and emits OP_SET_CELL for it.
C25_PromotedRegistered ==
    status # "init" =>
        \A sid \in 1..Len(compiler.scopes) :
            CellNamesOf(compiler.scopes[sid]) \subseteq
                compiler.scopes[sid].free \cup compiler.scopes[sid].cells

\* the nearest scope from sid outwards that declares the name; 0 if none does
RECURSIVE Declaring(_, _, _)
Declaring(ss, sid, name) ==
    IF sid = 0 THEN 0
    ELSE IF name \in ss[sid].decl THEN sid
    ELSE Declaring(ss, ss[sid].parent, name)

\* the classification the scope sid holds for the name agrees with the scope d
\* that declares it
Classified(ss, sid, name, d) ==
    /\ ss[d].type = "GLOBAL" => ss[sid].allocInfo[name] = "GLOBAL"
    /\ (ss[d].type # "GLOBAL" /\ name \in ss[sid].free) => ss[d].allocInfo[name] = "CELL"

\* C26: after the analysis a name that was referenced across a FUNCTION boundary
\* (it is free in the referencing scope) is CELL in the scope that declares it,
\* whatever was analysed before the crossing reference, and a name the GLOBAL
\* scope declares is GLOBAL in every scope that refers to it.
C26_ClassifiedByDeclaration ==
    status # "init" =>
        \A sid \in 1..Len(compiler.scopes) :
            \A name \in DOMAIN compiler.scopes[sid].allocInfo :
                Declaring(compiler.scopes, sid, name) # 0 =>
                    Classified(compiler.scopes, sid, name,
                               Declaring(compiler.scopes, sid, name))

\* the expression at the path in exp
RECURSIVE NodeAt(_, _)
NodeAt(exp, path) ==
    IF path = <<>> THEN exp ELSE NodeAt(Child(exp, Head(path)), Tail(path))

\* the parameter names of a lambda expression
ParamsOf(exp) == {Child(exp, 1).list[k].string : k \in 1..Len(Child(exp, 1).list)}

\* C27: the analysis of a lambda registers in the lambda's scope every parameter
\* p1..pn of its parameter list and no other name, for every n >= 0 and every
\* shape of the body, whenever the analysis stays within defined behaviour.
C27_LambdaParams ==
    status \notin {"init", "ub"} =>
        \A path \in DOMAIN compiler.scopeInfo :
            isLambda(NodeAt(Programs[program], path)) =>
                compiler.scopes[compiler.scopeInfo[path]].decl =
                    ParamsOf(NodeAt(Programs[program], path))

\* C28: between collection cycles no registered object has its mark bit set: the
\* bit is false in every object when mark starts, the objects allocated since
\* the last cycle included, and false again in every survivor after sweep.
C28_MarkBitsClean ==
    \A k \in 1..Len(objects) : ~heap[objects[k]].marked

\* the sum of the recorded sizes of the objects objs[i..]
RECURSIVE SumSizes(_, _, _)
SumSizes(h, objs, i) ==
    IF i > Len(objs) THEN 0 ELSE h[objs[i]].size + SumSizes(h, objs, i + 1)

\* C29: in every reachable state bytesAllocated is the sum of the recorded sizes
\* of the objects in the registry, so the counter never goes below zero: an
\* allocation adds the object and its size, a free by sweep or by cleanup
\* removes the object and subtracts the same size.
C29_BytesAccounted ==
    /\ bytesAllocated = SumSizes(heap, objects, 1)
    /\ bytesAllocated >= 0

\* a collection cycle has freed objects, the program has allocated again and
\* objects remain registered
C29_AllocatedAfterSweep ==
    /\ status = "running" /\ hist.cycles >= 1
    /\ \E o \in 1..Len(heap) : heap[o].deleted = 1
    /\ objects # <<>> /\ heap[Len(heap)].deleted = 0
    /\ \E k \in 1..Len(objects) : \E o \in 1..Len(heap) : heap[o].deleted = 1 /\ o < objects[k]
    /\ bytesAllocated > 0

\* the objects of the given type the constant pool of the Code object o holds
PoolObjects(o, type) ==
    {heap[o].constants[k].object :
        k \in {j \in 1..Len(heap[o].constants) :
                  IS_OBJECT_TYPE(heap, heap[o].constants[j], type)}}

\* the Code objects
Codes == {o \in 1..Len(heap) : heap[o].type = "CODE"}

-----------------------------------------------------------------------------
(* The jump encoding on its own: patchJumpAddress on a code of JumpCodeLen *)
(* bytes, then READ_SHORT at the patched offset.                           *)

\* the length of the code that is patched
JumpCodeLen == 4

\* the bytes tried at each end of the range of a uint8_t
ByteEdge == 4

\* the bytes an address is made of: both ends of 0..255 and the two bytes around
\* the sign bit
ByteSamples == (0..(ByteEdge - 1)) \cup {127, 128} \cup ((256 - ByteEdge)..255)

\* the values of a uint16_t that are tried: every pair of sampled bytes
Addresses == {hi * 256 + lo : hi \in ByteSamples, lo \in ByteSamples}

\* the code before the patch: JumpCodeLen bytes, no two alike
JumpCode == [k \in 1..JumpCodeLen |-> 250 + k]

\* here hist is the patch: the offset, the address, and the code before it
InitJump ==
    /\ status = "init"
    /\ err = ""
    /\ program = 0
    /\ heap = <<[CodeObject("main", 0) EXCEPT !.code = JumpCode]>>
    /\ objects = <<1>>
    /\ bytesAllocated = SizeOf("CODE")
    /\ globals = <<>>
    /\ compiler = [NoCompiler EXCEPT !.co = 1]
    /\ stack = <<>>
    /\ sp = 0
    /\ bp = 0
    /\ ip = [co |-> 1, off |-> 0]
    /\ fn = 0
    /\ callStack = <<>>
    /\ result = NUMBER(0)
    /\ hist = [offset |-> 0, address |-> 0, before |-> JumpCode]

\* patchJumpAddress(offset, a); the VM's ip is put on the patched operand
JPatch ==
    \E offset \in 0..(JumpCodeLen - 2), a \in Addresses :
        /\ status = "init"
        /\ heap' = patchJumpAddress(CompilerState(FALSE), offset, a).heap
        /\ status' = "patched"
        /\ ip' = [co |-> 1, off |-> offset]
        /\ hist' = [offset |-> offset, address |-> a, before |-> heap[1].code]
        /\ UNCHANGED <<err, program, objects, bytesAllocated, globals, compiler,
                       stack, sp, bp, fn, callStack, result>>

\* READ_SHORT at ip; result is the value read
JRead ==
    /\ status = "patched"
    /\ status' = "read"
    /\ ip' = READ_SHORT([Machine(FALSE) EXCEPT !.status = "running"]).ip
    /\ result' = NUMBER(READ_SHORT([Machine(FALSE) EXCEPT !.status = "running"]).ret)
    /\ UNCHANGED <<err, program, heap, objects, bytesAllocated, globals, compiler,
                   stack, sp, bp, fn, callStack, hist>>

NextJump == JPatch \/ JRead

SpecJump == InitJump /\ [][NextJump]_vars

\* C31: jump-address round trip: patchJumpAddress(offset, a) writes (a >> 8) &
\* 0xff at offset and a & 0xff at offset + 1 and changes no other byte of the
\* code, and READ_SHORT over the two bytes yields a and advances ip by 2, for
\* every a in 0..65535 (checked for the addresses made of the sampled bytes).
C31_JumpRoundTrip ==
    /\ status \in {"patched", "read"} =>
           /\ Len(heap[1].code) = Len(hist.before)
           /\ heap[1].code[hist.offset + 1] = (hist.address \div 256) % 256
           /\ heap[1].code[hist.offset + 2] = hist.address % 256
           /\ \A k \in 1..Len(hist.before) :
                  k \notin {hist.offset + 1, hist.offset + 2} =>
                      heap[1].code[k] = hist.before[k]
    /\ status = "read" =>
           /\ result = NUMBER(hist.address)
           /\ ip = [co |-> 1, off |-> hist.offset + 2]

\* the address 0x80ff, patched at offset 1, has been read back
C31_ReadBack ==
    /\ status = "read" /\ hist.address = 33023 /\ hist.offset = 1
    /\ heap[1].code = <<251, 128, 255, 254>>
    /\ result = NUMBER(33023)

-----------------------------------------------------------------------------
(* The encoding of the instructions.                                       *)

\* the number of operand bytes the VM reads after the opcode
OperandBytes(op) ==
    CASE op \in {OP_JMP, OP_JMP_IF_FALSE} -> 2
      [] op \in {OP_CONST, OP_COMPARE, OP_GET_GLOBAL, OP_SET_GLOBAL, OP_GET_LOCAL,
                 OP_SET_LOCAL, OP_SCOPE_EXIT, OP_CALL, OP_GET_CELL, OP_SET_CELL,
                 OP_LOAD_CELL, OP_MAKE_FUNCTION, OP_GET_PROP, OP_SET_PROP} -> 1
      [] OTHER -> 0

\* decoding covers codes of up to 2^DecodeDepth instructions
DecodeDepth == 10

\* the offset decoding reaches 2^k instructions after offset off, or where it
\* stops at the end of the code; the count is halved so that a long code does
\* not nest the evaluation once per instruction
RECURSIVE Hop(_, _, _)
Hop(code, off, k) ==
    IF off >= Len(code) THEN off
    ELSE IF k = 0 THEN off + 1 + OperandBytes(code[off + 1])
    ELSE Hop(code, Hop(code, off, k - 1), k - 1)

\* the offsets where decoding finds the next 2^k opcodes from offset off on
RECURSIVE Opcodes(_, _, _)
Opcodes(code, off, k) ==
    IF off >= Len(code) THEN {}
    ELSE IF k = 0 THEN {off}
    ELSE Opcodes(code, off, k - 1) \cup Opcodes(code, Hop(code, off, k - 1), k - 1)

\* the offsets where decoding the code from offset off on finds an opcode
Boundaries(code, off) == Opcodes(code, off, DecodeDepth)

\* the offset decoding from offset off on stops at
DecodeEnd(code, off) == Hop(code, off, DecodeDepth)

\* the Code object o is well-formed
WellFormed(o) ==
    /\ DecodeEnd(heap[o].code, 0) = Len(heap[o].code)
    /\ \A b \in Boundaries(heap[o].code, 0) :
           /\ heap[o].code[b + 1] \in {OP_JMP, OP_JMP_IF_FALSE} =>
                  heap[o].code[b + 2] * 256 + heap[o].code[b + 3]
                      \in Boundaries(heap[o].code, 0)
           /\ heap[o].code[b + 1] = OP_SET_CELL =>
                  heap[o].code[b + 2] < Len(heap[o].cellNames)

\* C32: every Code object the compiler produced is well-formed: decoding from
\* offset 0, each opcode followed by its operand bytes, ends at the end of the
\* code; every jump target is the offset of an opcode; and the operand that
\* follows an OP_SET_CELL is the index of a cell name of the Code object.
C32_CodeWellFormed ==
    status \in {"running", "halted"} => \A o \in Codes : WellFormed(o)

\* the bytes of the code at the offsets from..(to - 1)
CodeSpan(o, from, to) == SubSeq(heap[o].code, from + 1, to)

\* the code of the callee is emitted a second time where the loop over the
\* elements of the call begins
CalleeAgain(call) ==
    /\ call.loop + (call.loop - call.begin) <= call.at
    /\ CodeSpan(call.co, call.loop, call.loop + (call.loop - call.begin))
           = CodeSpan(call.co, call.begin, call.loop)

\* C33: for a call (callee a1 ... an) the compiler emits the code of the callee
\* once, then the code of the arguments, then OP_CALL n: the code that follows
\* the callee's is the code of a1, not the callee's again; so at OP_CALL the
\* callee is peek(n) and no copy of it lies below the frame.
C33_CalleeOnce ==
    status \in {"running", "halted"} =>
        \A call \in compiler.calls :
            /\ heap[call.co].code[call.at + 1] = OP_CALL
            /\ heap[call.co].code[call.at + 2] = call.argc
            /\ ~CalleeAgain(call)

\* the OP_SCOPE_EXIT about to execute ends the body of the running function: only
\* OP_RETURN follows it
ExitsBody ==
    /\ callStack # <<>>
    /\ ip.off + 3 = Len(heap[ip.co].code)
    /\ heap[ip.co].code[ip.off + 3] = OP_RETURN

C34Step ==
    (Decodes(OP_SCOPE_EXIT) /\ status' = "running") =>
        /\ sp - 1 - NextOperand >= bp /\ sp - 1 - NextOperand >= 0
        /\ sp' = sp - NextOperand /\ stack'[sp'] = stack[sp]
        /\ ExitsBody => sp' = bp + 1

\* C34: scope discipline: at every executed OP_SCOPE_EXIT n the n slots removed
\* lie inside the current frame and above the stack base; afterwards the value
\* that was on top is the new top and sp is lower by n; and the slots removed are
\* the ones of the exiting block: where the block is the body of a function they
\* are the function slot, the arguments and the locals, the whole frame below
\* the result.
C34_ScopeDiscipline == [][C34Step]_vars

\* C35: classification is consistent per binding: after the analysis every scope
\* that holds an allocInfo entry for a name holds the allocation type the scope
\* declaring that binding holds, so a reference is compiled with the opcode
\* family of the declaration.
C35_OneTypePerBinding ==
    status # "init" =>
        \A sid \in 1..Len(compiler.scopes) :
            \A name \in DOMAIN compiler.scopes[sid].allocInfo :
                Declaring(compiler.scopes, sid, name) # 0 =>
                    compiler.scopes[sid].allocInfo[name] =
                        compiler.scopes[Declaring(compiler.scopes, sid, name)].allocInfo[name]

C36Slot(v) == (ip.co = v.co /\ ip.off = v.at) => sp - 1 = bp + v.idx

\* C36: local slot agreement: index i of Code.locals is the stack slot bp[i]: when
\* the initializer of a local var has been evaluated, the value lies in the slot
\* bp + i of the index i the compiler gave the name, also where temporaries of
\* an enclosing expression are on the stack; and whenever OP_GET_LOCAL i or
\* OP_SET_LOCAL i executes, bp + i < sp.
C36_LocalSlots ==
    status = "running" =>
        /\ \A v \in compiler.vars : C36Slot(v)
        /\ (Decodes(OP_GET_LOCAL) \/ Decodes(OP_SET_LOCAL)) => bp + NextOperand < sp

\* C37: a while loop does not grow the operand stack: each time an invocation
\* reaches the loop-start offset of a while, the depth of the stack is the depth
\* of its first arrival there.
C37_LoopKeepsDepth ==
    (status = "running" /\ Has(hist.arrived, <<hist.inv, ip.co, ip.off>>)) =>
        sp = hist.arrived[<<hist.inv, ip.co, ip.off>>]

\* C38: every symbol the code generator compiles as a variable reference, the
\* callee symbol of a call included, was classified by the analysis in the scope
\* on top of the scope stack: the generator never reads an allocInfo entry that
\* is missing and defaults to GLOBAL.
C38_ReferencesClassified == compiler.defaulted = {}

\* getCellIndex finds the name at the index it returns
FindsCell(co, name) ==
    /\ getCellIndex(co, name) \in 0..(Len(co.cellNames) - 1)
    /\ co.cellNames[getCellIndex(co, name) + 1] = name

\* C39: CodeObject::getCellIndex(name) returns the index of name in cellNames
\* whenever name is in cellNames, whether the locals of the Code object are
\* empty or not: applied to every Code object the compiler produced and every
\* name of its cellNames.
C39_CellIndexFound ==
    status # "init" =>
        \A o \in Codes :
            \A k \in 1..Len(heap[o].cellNames) : FindsCell(heap[o], heap[o].cellNames[k])

\* C40: on block exit getVarsCountOnScopeExit pops the locals of the current
\* scope level and stops when the list has become empty: it never reads the last
\* element of an empty locals list, also for a block of main whose locals are
\* the only entries.
C40_NoBackOfEmpty ==
    err # "getVarsCountOnScopeExit: back() of empty locals"

=============================================================================
